---- MODULE Spec2Model ----
(***************************************************************************)
(* A model of the tree-code-chunker library (package codechunk).           *)
(*                                                                         *)
(* Part I models the single-file windowing engine of chunking.go and the   *)
(* chunk construction of chunkCode (codechunk.go): greedyAssignWindows,    *)
(* splitOversizedLeafByLines, mergeAdjacentWindows and rebuildText, over   *)
(* a source of bytes and the syntax tree the parser returned for it.       *)
(*                                                                         *)
(* Part II models the batch orchestration of codechunk.go:                 *)
(* ChunkBatchWithContext and ChunkBatchStreamWithContext, their worker     *)
(* goroutines, the work channel, the progress mutex and the context.       *)
(*                                                                         *)
(* Part III models the calls around Part I: Chunk (chunkFile) and          *)
(* ChunkStream with language resolution and parsing (languages.go,         *)
(* parser.go), entity extraction and the scope tree (extract.go), and the  *)
(* chunk context and its formatting (codechunk.go).                        *)
(*                                                                         *)
(* Part IV applies buildScopeTree (extract.go) to entity lists in any      *)
(* order.  Part V models the grammar cache of languages.go under           *)
(* concurrent lookups and clears.                                          *)
(***************************************************************************)
EXTENDS Integers, Sequences, FiniteSets, TLC

(***************************************************************************)
(* Bounds of the model.                                                    *)
(***************************************************************************)
\* longest source, in bytes
MaxLen == 3
\* most nodes of a syntax tree below the root
MaxNodes == 3
\* largest explicit max_chunk_size (0 selects the default)
MaxBudget == 2
\* most files of a batch
MaxFiles == 2
\* largest configured concurrency
MaxConcurrency == 2
\* goroutines that use the grammar cache at once
MaxGoroutines == 2
\* calls of getLanguageGrammar and ClearGrammarCache they make in all
MaxCalls == 4

(***************************************************************************)
(* Program constants.                                                      *)
(***************************************************************************)
\* '\n'
Newline == 10
\* isWhitespace: c <= 32
WhitespaceMax == 32
\* chunkCode: opts.MaxChunkSize == 0 selects 1500
DefaultMaxChunkSize == 1500
\* ChunkBatchWithContext: concurrency <= 0 selects 10
DefaultConcurrency == 10
\* chunkCode: opts.OverlapLines == 0 selects 10
DefaultOverlapLines == 10
\* buildChunkContext: getSiblings(..., 3)
MaxSiblings == 3
\* FormatChunkWithContext: at most 10 import names
MaxImportNames == 10
\* FormatChunkWithContext: getLastPathSegments(ctx.Filepath, 3)
PathSegments == 3

\* The bytes sources are made of: '\n', ' ' and 'a'.
Bytes == {Newline, WhitespaceMax, 97}

VARIABLES
    \* ---- Part I: one call of chunkFile / chunkCode ----
    code,           \* the source bytes
    children,       \* getNodeChildren(rootNode): the root's children, each [s, e, kids]
    MaxChunkSize,   \* opts.MaxChunkSize as the caller gave it
    maxSize,        \* the budget after defaults
    pc,             \* where chunkCode is
    stack,          \* the activation records of greedyAssignWindows, innermost last
    rawWindows,     \* what greedyAssignWindows returned
    mergedWindows,  \* what mergeAdjacentWindows returned
    chunks,         \* the chunk list chunkCode returns
    \* ---- Part II: one call of ChunkBatchWithContext / ChunkBatchStreamWithContext ----
    mode,           \* "batch" (ChunkBatchWithContext) or "stream" (ChunkBatchStreamWithContext)
    files,          \* the files argument
    Concurrency,    \* opts.Concurrency
    hasProgress,    \* opts.OnProgress != nil
    cancelled,      \* ctx.Done() is closed
    bpc,            \* where the call (the stream's outer goroutine) is
    work,           \* the buffered, closed work channel: the jobs not yet taken
    wpc,            \* each worker goroutine's position
    job,            \* each worker's idx / file (0: none)
    local,          \* each worker's chunks, err
    results,        \* the pre-sized results slice of the synchronous call
    completed,      \* the shared completed counter
    mu,             \* the mutex: its holder, or 0
    progress,       \* the OnProgress invocations so far, in order
    finished,       \* the jobs whose chunkFile call has returned (history)
    delivered,      \* what the consumer received from the channel, in order
    closed,         \* the result channel is closed
    consuming,      \* the consumer is still receiving
    \* ---- Part III: one call of Chunk (chunkFile) or of ChunkStream ----
    api,            \* "chunkCode" (Part I alone), "Chunk", "ChunkStream" or
                    \* "buildScopeTree" (Part IV); "none" in Parts II and V
    filepath,       \* the filepath argument
    opts,           \* the options but MaxChunkSize: [Language, ContextMode, SiblingDetail,
                    \* OverlapLines, FilterImports]
    nodeTypes,      \* node.Type() of every node of the tree, by node id
    treeHasError,   \* tree.RootNode().HasError()
    parseFails,     \* parser.ParseCtx returns an error
    lang,           \* the resolved language
    entities,       \* what extractEntities returned
    scopeTree,      \* what buildScopeTree returned
    ret,            \* what the call returned: [done, chunks, err]
    emitted,        \* the chunks sent on ChunkStream's channel, in order
    chClosed,       \* ChunkStream's channel is closed
    prevText,       \* ChunkStream's prevText
    parsed,         \* parser.ParseCtx was called (history)
    \* ---- Part V: goroutines calling getLanguageGrammar / ClearGrammarCache ----
    grammarCache,   \* the package-level map: language -> grammar, for the keys it holds
    grammarMutex,   \* the RWMutex: [readers, writer]
    gpc,            \* each goroutine's position
    gcall,          \* each goroutine's call: [lang, from], from = clears at its start
    gval,           \* each goroutine's local variable grammar
    loads,          \* the grammars loaded so far: a loaded grammar is a new object
    loadEpoch,      \* per loaded grammar, the number of clears done when it was loaded
    clears,         \* the number of times the map was replaced (history)
    calls,          \* the number of calls started
    lookups         \* the finished lookups, in order of return: [lang, grammar, from, to]

chunkVars == <<code, children, MaxChunkSize, maxSize, pc, stack, rawWindows,
               mergedWindows, chunks>>

batchVars == <<mode, files, Concurrency, hasProgress, cancelled, bpc, work, wpc,
               job, local, results, completed, mu, progress, finished, delivered,
               closed, consuming>>

fileVars == <<api, filepath, opts, nodeTypes, treeHasError, parseFails, lang, entities,
              scopeTree, ret, emitted, chClosed, prevText, parsed>>

cacheVars == <<grammarCache, grammarMutex, gpc, gcall, gval, loads, loadEpoch, clears,
               calls, lookups>>

vars == <<chunkVars, batchVars, fileVars, cacheVars>>

(***************************************************************************)
(* Sequence helpers.                                                       *)
(***************************************************************************)
\* code[start:end] of Go: the bytes at 0-based offsets start .. end-1
Slice(text, start, end) == SubSeq(text, start + 1, end)

(***************************************************************************)
(* Syntax trees.  A node is [s, e, kids]: StartByte, EndByte and the       *)
(* ordered children.  Siblings are ordered and disjoint, children lie in   *)
(* their parent, and a child may span its whole parent.  Zero-width        *)
(* (MISSING) nodes are left out: with a budget >= 0 they have size 0, fit  *)
(* every window and never change a window's byte span beyond its           *)
(* neighbours'.                                                            *)
(***************************************************************************)
RECURSIVE NodeCount(_)
NodeCount(forest) ==
    IF forest = <<>> THEN 0
    ELSE 1 + NodeCount(Head(forest).kids) + NodeCount(Tail(forest))

RECURSIVE Forests(_, _, _)
Forests(lo, hi, k) ==
    IF k = 0 THEN {<<>>}
    ELSE {<<>>} \cup
         UNION { UNION { { <<[s |-> r[1], e |-> r[2], kids |-> ks]>> \o rest :
                             rest \in Forests(r[2], hi, k - 1 - NodeCount(ks)) } :
                         ks \in Forests(r[1], r[2], k - 1) } :
                 r \in { q \in (lo..hi) \X (lo..hi) : q[1] < q[2] } }

Codes == UNION { [1..n -> Bytes] : n \in 0..MaxLen }

(***************************************************************************)
(* NWS counting (chunking.go).                                             *)
(***************************************************************************)
isWhitespace(c) == c <= WhitespaceMax

RECURSIVE countNws(_)
countNws(text) ==
    IF text = <<>> THEN 0
    ELSE (IF isWhitespace(Head(text)) THEN 0 ELSE 1) + countNws(Tail(text))

\* cumsum[i] = NWS bytes among the first i bytes (index 0..len)
preprocessNwsCumsum(src) ==
    [i \in 0..Len(src) |-> countNws(SubSeq(src, 1, i))]

getNwsCountFromCumsum(cumsum, start, end) ==
    LET last == Cardinality(DOMAIN cumsum) - 1
        e2 == IF end > last THEN last ELSE end
        s2 == IF start < 0 THEN 0 ELSE start
    IN  cumsum[e2] - cumsum[s2]

getNwsCountForNode(node, cumsum) ==
    getNwsCountFromCumsum(cumsum, node.s, node.e)

isLeafNode(node) == Len(node.kids) = 0

\* countNewlines(code, start, end)
RECURSIVE countNewlines(_, _, _)
countNewlines(src, start, end) ==
    LET e2 == IF end > Len(src) THEN Len(src) ELSE end
    IN  IF start >= e2 THEN 0
        ELSE (IF src[start + 1] = Newline THEN 1 ELSE 0)
             + countNewlines(src, start + 1, e2)

countLinesUpTo(src, offset) == countNewlines(src, 0, offset)

\* strings.Split(text, "\n"): the lines of text, at least one
RECURSIVE SplitLines(_)
SplitLines(text) ==
    IF \A i \in 1..Len(text) : text[i] # Newline THEN <<text>>
    ELSE LET k == CHOOSE i \in 1..Len(text) :
                      text[i] = Newline /\ \A j \in 1..(i - 1) : text[j] # Newline
         IN  <<SubSeq(text, 1, k - 1)>> \o SplitLines(SubSeq(text, k + 1, Len(text)))

(***************************************************************************)
(* Windows (types.go ASTWindow).  A window holds references to nodes; a    *)
(* reference is [id, s, e], id being the node's path from the root (its    *)
(* identity), s and e its StartByte and EndByte.  The Ancestors field is   *)
(* written by the packer and read by nothing, so it is left out.           *)
(***************************************************************************)
EmptyWindow ==
    [Nodes |-> <<>>, Size |-> 0, IsPartialNode |-> FALSE, LineRanges |-> <<>>]

NodeRef(path, j, node) == [id |-> Append(path, j), s |-> node.s, e |-> node.e]

\* the partial window splitOversizedLeafByLines appends for the accumulated lines
PartialWindow(ref, src, st) ==
    [Nodes |-> <<ref>>,
     Size |-> st.curSize,
     IsPartialNode |-> TRUE,
     LineRanges |-> <<[Start |-> countNewlines(src, 0, ref.s + st.off),
                       End |-> countNewlines(src, 0, ref.s + st.off + st.curLen)]>>]

\* one iteration of the loop over lines; st = [windows, curLen, curSize, off,
\* seen, cur, groups]: currentChunk.Len(), currentSize, chunkStartOffset, the
\* number of lines iterated, the indices (from 1) of the lines written to
\* currentChunk since its last Reset, and those of each window appended
SplitLineStep(st, line, isLast, ref, src, budget) ==
    LET lineNws == countNws(line)
        lineLen == Len(line) + (IF isLast THEN 0 ELSE 1)
    IN  IF st.curSize + lineNws <= budget
        THEN [st EXCEPT !.curLen = @ + lineLen, !.curSize = @ + lineNws,
                        !.seen = @ + 1, !.cur = Append(@, st.seen + 1)]
        ELSE [windows |-> IF st.curLen > 0
                          THEN Append(st.windows, PartialWindow(ref, src, st))
                          ELSE st.windows,
              curLen |-> lineLen,
              curSize |-> lineNws,
              off |-> st.off + st.curLen,
              seen |-> st.seen + 1,
              cur |-> <<st.seen + 1>>,
              groups |-> IF st.curLen > 0 THEN Append(st.groups, st.cur)
                         ELSE st.groups]

RECURSIVE SplitLoop(_, _, _, _, _, _)
SplitLoop(st, lines, i, ref, src, budget) ==
    IF i > Len(lines) THEN st
    ELSE SplitLoop(SplitLineStep(st, lines[i], i = Len(lines), ref, src, budget),
                   lines, i + 1, ref, src, budget)

\* the state after the loop and the closing append (lines 178-194)
SplitFinal(ref, src, budget) ==
    LET lines == SplitLines(Slice(src, ref.s, ref.e))
        st == SplitLoop([windows |-> <<>>, curLen |-> 0, curSize |-> 0, off |-> 0,
                         seen |-> 0, cur |-> <<>>, groups |-> <<>>],
                        lines, 1, ref, src, budget)
    IN  IF st.curLen > 0
        THEN [st EXCEPT !.windows = Append(@, PartialWindow(ref, src, st)),
                        !.groups = Append(@, st.cur)]
        ELSE st

splitOversizedLeafByLines(ref, src, budget) == SplitFinal(ref, src, budget).windows

\* per window of splitOversizedLeafByLines, the lines of the leaf that were
\* written to its currentChunk
AccumulatedLines(ref, src, budget) == SplitFinal(ref, src, budget).groups

\* a merge that forgets the size of the window it takes in
MergeTwoKeepsSize(current, next) ==
    [Nodes |-> current.Nodes \o next.Nodes,
     Size |-> current.Size,
     IsPartialNode |-> current.IsPartialNode \/ next.IsPartialNode,
     LineRanges |-> current.LineRanges \o next.LineRanges]

\* the body of the merge loop: current and next fit together
MergeTwo(current, next) ==
    [Nodes |-> current.Nodes \o next.Nodes,
     Size |-> current.Size + next.Size,
     IsPartialNode |-> current.IsPartialNode \/ next.IsPartialNode,
     LineRanges |-> current.LineRanges \o next.LineRanges]

RECURSIVE MergeLoop(_, _, _, _, _)
MergeLoop(merged, current, windows, i, budget) ==
    IF i > Len(windows) THEN Append(merged, current)
    ELSE IF current.Size + windows[i].Size <= budget
         THEN MergeLoop(merged, MergeTwo(current, windows[i]), windows, i + 1, budget)
         ELSE MergeLoop(Append(merged, current), windows[i], windows, i + 1, budget)

mergeAdjacentWindows(windows, budget) ==
    IF Len(windows) = 0 THEN windows
    ELSE MergeLoop(<<>>, windows[1], windows, 2, budget)

\* a rebuild that trims nothing
TrailingNewlinesNone(src, start, end) == 0

\* how many '\n' bytes end code[start:end]
RECURSIVE TrailingNewlines(_, _, _)
TrailingNewlines(src, start, end) ==
    IF end > start /\ src[end] = Newline
    THEN 1 + TrailingNewlines(src, start, end - 1)
    ELSE 0

rebuildText(window, src) ==
    IF Len(window.Nodes) = 0
    THEN [text |-> <<>>,
          byteRange |-> [Start |-> 0, End |-> 0],
          lineRange |-> [Start |-> 0, End |-> 0]]
    ELSE LET ns == window.Nodes
             minStart == CHOOSE x \in {ns[k].s : k \in 1..Len(ns)} :
                             \A k \in 1..Len(ns) : x <= ns[k].s
             maxEnd == CHOOSE x \in {ns[k].e : k \in 1..Len(ns)} :
                           \A k \in 1..Len(ns) : x >= ns[k].e
             endByte0 == IF maxEnd > Len(src) THEN Len(src) ELSE maxEnd
             startByte == IF minStart < 0 THEN 0 ELSE minStart
             endByte == endByte0 - TrailingNewlines(src, startByte, endByte0)
             lr == window.LineRanges
         IN  [text |-> Slice(src, startByte, endByte),
              byteRange |-> [Start |-> startByte, End |-> endByte],
              lineRange |->
                  IF Len(lr) > 0
                  THEN [Start |-> lr[1].Start, End |-> lr[Len(lr)].End]
                  ELSE [Start |-> countLinesUpTo(src, startByte),
                        End |-> countLinesUpTo(src, endByte)]]

(***************************************************************************)
(* Entities and the scope tree (extract.go).                               *)
(*                                                                         *)
(* An entity is [Type, Name, Signature, Source, ByteRange, LineRange].     *)
(* The name of an entity is the identity of its node (its path from the    *)
(* root), so two entities never share a name; the signature heuristics are *)
(* left out and the signature is the name, which is what walkAndExtract    *)
(* falls back to.  An import node yields one import entity.                *)
(***************************************************************************)
\* extract.go 10-59, for the node types of the model
isEntityNodeType(nodeType, language) ==
    CASE language = "go" ->
             nodeType \in {"function_declaration", "import_declaration"}
      [] language = "typescript" ->
             nodeType \in {"function_declaration", "class_declaration",
                           "import_statement", "export_statement"}
      [] OTHER -> FALSE

\* extract.go 62-103
getEntityType(nodeType) ==
    CASE nodeType = "function_declaration" -> "function"
      [] nodeType = "class_declaration" -> "class"
      [] nodeType = "import_declaration" -> "import"
      [] nodeType = "import_statement" -> "import"
      [] nodeType = "export_statement" -> "export"
      [] OTHER -> ""

\* the entity walkAndExtract (or createImportEntity) makes of a node
EntityOf(ref, entityType, src) ==
    [Type |-> entityType,
     Name |-> ref.id,
     Signature |-> ref.id,
     Source |-> IF entityType = "import" THEN "pkg" ELSE "",
     ByteRange |-> [Start |-> ref.s, End |-> ref.e],
     LineRange |-> [Start |-> countNewlines(src, 0, ref.s),
                    End |-> countNewlines(src, 0, ref.e)]]

\* walkAndExtract over the nodes forest[k..] and what lies below them, in
\* document order; an import node is not descended into
RECURSIVE walkAndExtract(_, _, _, _, _, _)
walkAndExtract(forest, path, k, types, language, src) ==
    IF k > Len(forest) THEN <<>>
    ELSE LET ref == NodeRef(path, k, forest[k])
             below == walkAndExtract(forest[k].kids, ref.id, 1, types, language, src)
             here == IF isEntityNodeType(types[ref.id], language)
                     THEN IF getEntityType(types[ref.id]) = "import"
                          THEN <<EntityOf(ref, "import", src)>>
                          ELSE <<EntityOf(ref, getEntityType(types[ref.id]), src)>> \o below
                     ELSE below
         IN  here \o walkAndExtract(forest, path, k + 1, types, language, src)

\* extractEntities(rootNode, lang, code); the root is never an entity node
extractEntities(forest, types, language, src) ==
    walkAndExtract(forest, <<>>, 1, types, language, src)

rangeContains(outer, inner) == outer.Start <= inner.Start /\ inner.End <= outer.End

\* types.go: the entity types
EntityTypes ==
    {"function", "method", "class", "interface", "type", "enum", "import", "export"}

\* the entities of a list whose type is one of typeSet, in order
RECURSIVE EntitiesOfTypes(_, _)
EntitiesOfTypes(es, typeSet) ==
    IF es = <<>> THEN <<>>
    ELSE (IF Head(es).Type \in typeSet THEN <<Head(es)>> ELSE <<>>)
         \o EntitiesOfTypes(Tail(es), typeSet)

\* one pass of the insertion sort: key put into the sorted list before the
\* entries that start after it
RECURSIVE InsertSorted(_, _)
InsertSorted(sorted, key) ==
    IF sorted # <<>> /\ sorted[Len(sorted)].ByteRange.Start > key.ByteRange.Start
    THEN Append(InsertSorted(SubSeq(sorted, 1, Len(sorted) - 1), key),
                sorted[Len(sorted)])
    ELSE Append(sorted, key)

\* a sort that leaves the list as it is
sortByByteRangeNot(es) == es

RECURSIVE sortByByteRange(_)
sortByByteRange(es) ==
    IF es = <<>> THEN <<>>
    ELSE InsertSorted(sortByByteRange(SubSeq(es, 1, Len(es) - 1)), es[Len(es)])

\* A scope tree is [Root, Nodes, Imports, Exports, AllEntities]: Nodes is the
\* heap of scope nodes, a node being [Entity, Children, Parent] with
\* Children and Root lists of heap indices and Parent an index or 0 (nil).
RECURSIVE findInNode(_, _, _)
RECURSIVE findInNodes(_, _, _, _)
findInNode(nodes, n, entity) ==
    IF ~rangeContains(nodes[n].Entity.ByteRange, entity.ByteRange) THEN 0
    ELSE LET deeperMatch == findInNodes(nodes, nodes[n].Children, 1, entity)
         IN  IF deeperMatch # 0 THEN deeperMatch ELSE n

\* "for _, x := range list { if found := findInNode(x, entity); found != nil"
findInNodes(nodes, list, i, entity) ==
    IF i > Len(list) THEN 0
    ELSE LET found == findInNode(nodes, list[i], entity)
         IN  IF found # 0 THEN found ELSE findInNodes(nodes, list, i + 1, entity)

findParentNode(nodes, roots, entity) == findInNodes(nodes, roots, 1, entity)

\* a scope node that forgets its parent
createScopeNodeOrphan(entity, parent) ==
    [Entity |-> entity, Children |-> <<>>, Parent |-> 0]

createScopeNode(entity, parent) ==
    [Entity |-> entity, Children |-> <<>>, Parent |-> parent]

\* the body of buildScopeTree's loop; st = [Nodes, Root]
ScopeInsert(st, entity) ==
    LET parent == findParentNode(st.Nodes, st.Root, entity)
        n == Len(st.Nodes) + 1
    IN  IF parent # 0
        THEN [Nodes |-> Append([st.Nodes EXCEPT ![parent].Children = Append(@, n)],
                               createScopeNode(entity, parent)),
              Root |-> st.Root]
        ELSE [Nodes |-> Append(st.Nodes, createScopeNode(entity, 0)),
              Root |-> Append(st.Root, n)]

RECURSIVE ScopeInsertAll(_, _)
ScopeInsertAll(st, es) ==
    IF es = <<>> THEN st ELSE ScopeInsertAll(ScopeInsert(st, Head(es)), Tail(es))

buildScopeTree(es) ==
    LET scopeEntities == sortByByteRange(
                             EntitiesOfTypes(es, EntityTypes \ {"import", "export"}))
        st == ScopeInsertAll([Nodes |-> <<>>, Root |-> <<>>], scopeEntities)
    IN  [Root |-> st.Root,
         Nodes |-> st.Nodes,
         Imports |-> EntitiesOfTypes(es, {"import"}),
         Exports |-> EntitiesOfTypes(es, {"export"}),
         AllEntities |-> es]

RECURSIVE findScopeInNode(_, _, _)
RECURSIVE findScopeInNodes(_, _, _, _)
findScopeInNode(tree, n, offset) ==
    LET byteRange == tree.Nodes[n].Entity.ByteRange
    IN  IF offset < byteRange.Start \/ offset >= byteRange.End THEN 0
        ELSE LET deeperMatch == findScopeInNodes(tree, tree.Nodes[n].Children, 1, offset)
             IN  IF deeperMatch # 0 THEN deeperMatch ELSE n

findScopeInNodes(tree, list, i, offset) ==
    IF i > Len(list) THEN 0
    ELSE LET found == findScopeInNode(tree, list[i], offset)
         IN  IF found # 0 THEN found ELSE findScopeInNodes(tree, list, i + 1, offset)

\* a search that takes the end of a range for part of it
findScopeAtOffsetClosed(tree, offset) ==
    IF \E n \in 1..Len(tree.Nodes) :
           /\ tree.Nodes[n].Entity.ByteRange.Start <= offset
           /\ offset <= tree.Nodes[n].Entity.ByteRange.End
    THEN CHOOSE n \in 1..Len(tree.Nodes) :
             /\ tree.Nodes[n].Entity.ByteRange.Start <= offset
             /\ offset <= tree.Nodes[n].Entity.ByteRange.End
    ELSE 0

\* the index of the scope node found, 0 for nil
findScopeAtOffset(tree, offset) == findScopeInNodes(tree, tree.Root, 1, offset)

\* an ancestor chain that is never walked
getAncestorChainNone(tree, n) == <<>>

RECURSIVE getAncestorChain(_, _)
getAncestorChain(tree, n) ==
    LET current == tree.Nodes[n].Parent
    IN  IF current = 0 THEN <<>> ELSE <<current>> \o getAncestorChain(tree, current)

(***************************************************************************)
(* Chunk context and formatting (codechunk.go 506-720).                    *)
(*                                                                         *)
(* A file path is the list of its "/"-separated segments, the empty path   *)
(* being <<"">> as strings.Split returns it.  A formatted text is the list *)
(* of the parts FormatChunkWithContext joins with "\n", each part being    *)
(* [kind, str, names, bytes]: what the line is, and its content as a path, *)
(* a list of names or raw bytes.                                           *)
(***************************************************************************)
\* chunkCode 122-133 and ChunkStream 230-241, for the options but MaxChunkSize
WithDefaults(o) ==
    [o EXCEPT !.ContextMode = IF @ = "" THEN "full" ELSE @,
              !.SiblingDetail = IF @ = "" THEN "signatures" ELSE @,
              !.OverlapLines = IF @ = 0 THEN DefaultOverlapLines ELSE @]

ZeroOptions ==
    [Language |-> "", ContextMode |-> "", SiblingDetail |-> "", OverlapLines |-> 0,
     FilterImports |-> FALSE]

EmptyPath == <<"">>

NoParseError == [nil |-> TRUE, Message |-> "", Recoverable |-> FALSE]

\* parser.go 61-67
RecoverableParseError ==
    [nil |-> FALSE, Message |-> "parse error in source code", Recoverable |-> TRUE]

EntityInfoOf(entity) ==
    [Name |-> entity.Name, Type |-> entity.Type, Signature |-> entity.Signature]

\* an overlap test that takes touching ranges for overlapping
RangesTouch(a, b) == a.Start <= b.End /\ a.End >= b.Start

\* "entity.ByteRange.Start < byteRange.End && entity.ByteRange.End > byteRange.Start"
RangesOverlap(a, b) == a.Start < b.End /\ a.End > b.Start

RECURSIVE EntitiesInRangeFrom(_, _)
EntitiesInRangeFrom(byteRange, es) ==
    IF es = <<>> THEN <<>>
    ELSE LET entity == Head(es)
         IN  (IF RangesOverlap(entity.ByteRange, byteRange)
              THEN <<[Name |-> entity.Name,
                      Type |-> entity.Type,
                      Signature |-> entity.Signature,
                      LineRange |-> entity.LineRange,
                      IsPartial |-> \/ entity.ByteRange.Start < byteRange.Start
                                    \/ entity.ByteRange.End > byteRange.End]>>
              ELSE <<>>)
             \o EntitiesInRangeFrom(byteRange, Tail(es))

getEntitiesInRange(byteRange, tree) == EntitiesInRangeFrom(byteRange, tree.AllEntities)

getScopeForRange(byteRange, tree) ==
    LET scopeNode == findScopeAtOffset(tree, byteRange.Start)
    IN  IF scopeNode = 0 THEN <<>>
        ELSE LET ancestors == getAncestorChain(tree, scopeNode)
             IN  <<EntityInfoOf(tree.Nodes[scopeNode].Entity)>>
                 \o [k \in 1..Len(ancestors) |-> EntityInfoOf(tree.Nodes[ancestors[k]].Entity)]

\* the loop of getSiblings from entity k on
RECURSIVE SiblingsFrom(_, _, _, _, _, _)
SiblingsFrom(byteRange, es, k, beforeCount, afterCount, maxSiblings) ==
    IF k > Len(es) THEN <<>>
    ELSE LET entity == es[k]
             skip == entity.Type \in {"import", "export"}
             isBefore == /\ ~skip
                         /\ entity.ByteRange.End <= byteRange.Start
                         /\ beforeCount < maxSiblings
             beforeCount2 == IF isBefore THEN beforeCount + 1 ELSE beforeCount
             isAfter == /\ ~skip
                        /\ entity.ByteRange.Start >= byteRange.End
                        /\ afterCount < maxSiblings
             afterCount2 == IF isAfter THEN afterCount + 1 ELSE afterCount
         IN  (IF isBefore
              THEN <<[Name |-> entity.Name, Type |-> entity.Type,
                      Position |-> "before", Distance |-> beforeCount + 1]>>
              ELSE <<>>)
             \o (IF isAfter
                 THEN <<[Name |-> entity.Name, Type |-> entity.Type,
                         Position |-> "after", Distance |-> afterCount + 1]>>
                 ELSE <<>>)
             \o SiblingsFrom(byteRange, es, k + 1, beforeCount2, afterCount2, maxSiblings)

getSiblings(byteRange, tree, detail, maxSiblings) ==
    IF detail = "none" THEN <<>>
    ELSE SiblingsFrom(byteRange, tree.AllEntities, 1, 0, 0, maxSiblings)

\* strings.Contains(signature, name): a signature is one name here
Contains(signature, name) == signature = name

RECURSIVE ImportsFrom(_, _, _)
ImportsFrom(entityInfos, imps, filterImports) ==
    IF imps = <<>> THEN <<>>
    ELSE LET imp == Head(imps)
             used == \E k \in 1..Len(entityInfos) :
                         \/ entityInfos[k].Name = imp.Name
                         \/ Contains(entityInfos[k].Signature, imp.Name)
         IN  (IF ~filterImports \/ used
              THEN <<[Name |-> imp.Name, Source |-> imp.Source]>>
              ELSE <<>>)
             \o ImportsFrom(entityInfos, Tail(imps), filterImports)

getRelevantImports(entityInfos, tree, filterImports) ==
    ImportsFrom(entityInfos, tree.Imports, filterImports)

\* a context that is built whatever the context mode
ContextAlways(text, tree, o, path, language) ==
    [Filepath |-> path,
     Language |-> language,
     Scope |-> getScopeForRange(text.byteRange, tree),
     Entities |-> getEntitiesInRange(text.byteRange, tree),
     Siblings |-> getSiblings(text.byteRange, tree, o.SiblingDetail, MaxSiblings),
     Imports |-> getRelevantImports(getEntitiesInRange(text.byteRange, tree), tree,
                                    o.FilterImports),
     ParseError |-> NoParseError]

buildChunkContext(text, tree, o, path, language) ==
    LET byteRange == text.byteRange
        inRange == getEntitiesInRange(byteRange, tree)
    IN  [Filepath |-> path,
         Language |-> language,
         Scope |-> getScopeForRange(byteRange, tree),
         Entities |-> inRange,
         Siblings |-> getSiblings(byteRange, tree, o.SiblingDetail, MaxSiblings),
         Imports |-> getRelevantImports(inRange, tree, o.FilterImports),
         ParseError |-> NoParseError]

\* codechunk.go 160-170 (chunkCode) and 254-264 (ChunkStream)
ContextFor(text, tree, o, path, language) ==
    IF o.ContextMode = "none"
    THEN [Filepath |-> EmptyPath, Language |-> "", Scope |-> <<>>, Entities |-> <<>>,
          Siblings |-> <<>>, Imports |-> <<>>, ParseError |-> NoParseError]
    ELSE buildChunkContext(text, tree, o, path, language)

\* strings.Join(lines, "\n")
RECURSIVE JoinLines(_)
JoinLines(lines) ==
    IF Len(lines) = 0 THEN <<>>
    ELSE IF Len(lines) = 1 THEN lines[1]
    ELSE lines[1] \o <<Newline>> \o JoinLines(Tail(lines))

\* an overlap that is one line longer than asked for
LastLinesOneMore(prev, n) ==
    LET prevLines == SplitLines(prev)
        overlapLineCount == IF n + 1 > Len(prevLines) THEN Len(prevLines) ELSE n + 1
    IN  JoinLines(SubSeq(prevLines, Len(prevLines) - overlapLineCount + 1, Len(prevLines)))

\* codechunk.go 175-180: the last n lines of prev, joined
LastLines(prev, n) ==
    LET prevLines == SplitLines(prev)
        overlapLineCount == IF n > Len(prevLines) THEN Len(prevLines) ELSE n
    IN  JoinLines(SubSeq(prevLines, Len(prevLines) - overlapLineCount + 1, Len(prevLines)))

\* chunkCode 172-183: i is the 0-based index, prev the previous rebuilt text
OverlapText(o, i, prev) ==
    IF o.OverlapLines > 0 /\ i > 0 /\ prev # <<>>
    THEN LastLines(prev, o.OverlapLines)
    ELSE <<>>

\* a stream that never computes an overlap
StreamOverlapNone(o, prev) == <<>>

\* ChunkStream 266-274: prev is prevText, "" before the first chunk
StreamOverlapText(o, prev) ==
    IF o.OverlapLines > 0 /\ prev # <<>>
    THEN LastLines(prev, o.OverlapLines)
    ELSE <<>>

getLastPathSegments(path, n) ==
    IF Len(path) <= n THEN path ELSE SubSeq(path, Len(path) - n + 1, Len(path))

Part(kind, path, names, bytes) ==
    [kind |-> kind, path |-> path, names |-> names, bytes |-> bytes]

Reversed(s) == [k \in 1..Len(s) |-> s[Len(s) + 1 - k]]

\* the signatures "# Defines:" lists
RECURSIVE DefinedSignatures(_)
DefinedSignatures(infos) ==
    IF infos = <<>> THEN <<>>
    ELSE (IF Head(infos).Signature # <<>> /\ Head(infos).Type # "import"
          THEN <<Head(infos).Signature>> ELSE <<>>)
         \o DefinedSignatures(Tail(infos))

RECURSIVE SiblingNames(_, _)
SiblingNames(siblings, position) ==
    IF siblings = <<>> THEN <<>>
    ELSE (IF Head(siblings).Position = position THEN <<Head(siblings).Name>> ELSE <<>>)
         \o SiblingNames(Tail(siblings), position)

\* a formatter that puts the blank line and the text after any header, an
\* empty one too
FormatAlwaysBlankLine(text, ctx, overlapText) ==
    <<Part("", <<>>, <<>>, <<>>)>>
    \o (IF overlapText # <<>>
        THEN <<Part("# ...", <<>>, <<>>, <<>>),
               Part("overlap", <<>>, <<>>, overlapText),
               Part("# ---", <<>>, <<>>, <<>>)>>
        ELSE <<>>)
    \o <<Part("text", <<>>, <<>>, text)>>

\* FormatChunkWithContext, lines 506-577: the parts strings.Join puts on
\* lines of their own
FormatChunkWithContext(text, ctx, overlapText) ==
    LET signatures == DefinedSignatures(ctx.Entities)
        importNames == [k \in 1..(IF Len(ctx.Imports) > MaxImportNames
                                  THEN MaxImportNames ELSE Len(ctx.Imports)) |->
                           ctx.Imports[k].Name]
        beforeSiblings == SiblingNames(ctx.Siblings, "before")
        afterSiblings == SiblingNames(ctx.Siblings, "after")
        header ==
            (IF ctx.Filepath # EmptyPath
             THEN <<Part("# ", getLastPathSegments(ctx.Filepath, PathSegments), <<>>, <<>>)>>
             ELSE <<>>)
            \o (IF Len(ctx.Scope) > 0
                THEN <<Part("# Scope: ", <<>>,
                            Reversed([k \in 1..Len(ctx.Scope) |-> ctx.Scope[k].Name]), <<>>)>>
                ELSE <<>>)
            \o (IF Len(signatures) > 0
                THEN <<Part("# Defines: ", <<>>, signatures, <<>>)>> ELSE <<>>)
            \o (IF Len(ctx.Imports) > 0
                THEN <<Part("# Uses: ", <<>>, importNames, <<>>)>> ELSE <<>>)
            \o (IF Len(beforeSiblings) > 0
                THEN <<Part("# After: ", <<>>, beforeSiblings, <<>>)>> ELSE <<>>)
            \o (IF Len(afterSiblings) > 0
                THEN <<Part("# Before: ", <<>>, afterSiblings, <<>>)>> ELSE <<>>)
    IN  header
        \o (IF Len(header) > 0 THEN <<Part("", <<>>, <<>>, <<>>)>> ELSE <<>>)
        \o (IF overlapText # <<>>
            THEN <<Part("# ...", <<>>, <<>>, <<>>),
                   Part("overlap", <<>>, <<>>, overlapText),
                   Part("# ---", <<>>, <<>>, <<>>)>>
            ELSE <<>>)
        \o <<Part("text", <<>>, <<>>, text)>>

\* the CodeChunk literal of chunkCode 187-195 and ChunkStream 278-286
CodeChunk(text, ctx, overlapText, i, totalChunks) ==
    [Text |-> text.text,
     ContextualizedText |-> FormatChunkWithContext(text.text, ctx, overlapText),
     ByteRange |-> text.byteRange,
     LineRange |-> text.lineRange,
     Context |-> ctx,
     Index |-> i,
     TotalChunks |-> totalChunks]

\* chunkCode, lines 149-196: one chunk per merged window, for the call's
\* options, scope tree, path and language
BuildChunks(windows, src) ==
    [i \in 1..Len(windows) |->
        LET text == rebuildText(windows[i], src)
            o == WithDefaults(opts)
            prev == IF i > 1 THEN rebuildText(windows[i - 1], src).text ELSE <<>>
        IN  CodeChunk(text,
                      ContextFor(text, scopeTree, o, filepath, lang),
                      OverlapText(o, i - 1, prev),
                      i - 1,
                      Len(windows))]

(***************************************************************************)
(* Part I, the state machine: one call of chunkCode.                       *)
(*                                                                         *)
(* greedyAssignWindows is recursive; each of its activations is a frame    *)
(* [nodes, path, i, cur, windows]: the node list it iterates, the path of  *)
(* the node whose children they are, the index of the next node, its       *)
(* currentWindow and its local windows list.  One action handles one node  *)
(* of the loop (one action per branch), one handles the return.            *)
(***************************************************************************)
Frame(nodes, path) ==
    [nodes |-> nodes, path |-> path, i |-> 1, cur |-> EmptyWindow, windows |-> <<>>]

Top == stack[Len(stack)]

TopNode == Top.nodes[Top.i]

TopRef == NodeRef(Top.path, Top.i, TopNode)

TopNodeSize == getNwsCountForNode(TopNode, preprocessNwsCumsum(code))

SetTop(frame) == [stack EXCEPT ![Len(stack)] = frame]

\* a flush that forgets the window being filled
FlushedForgotten(frame) == frame.windows

\* "if len(currentWindow.Nodes) > 0 { windows = append(windows, currentWindow) }"
Flushed(frame) ==
    IF Len(frame.cur.Nodes) > 0 THEN Append(frame.windows, frame.cur)
    ELSE frame.windows

\* buildScopeTree of no entities
EmptyScopeTree ==
    [Root |-> <<>>, Nodes |-> <<>>, Imports |-> <<>>, Exports |-> <<>>,
     AllEntities |-> <<>>]

\* the call has not returned
NoReturn == [done |-> FALSE, nil |-> TRUE, err |-> ""]

\* a grammar: which parser it is and which load made it; Nil is the nil
\* pointer
Nil == [of |-> "", load |-> 0]

\* make(map[Language]*sitter.Language)
EmptyCache == [l \in {} |-> Nil]

NoCall == [lang |-> "", from |-> 0]

\* Part V at rest: no goroutine uses the grammar cache
CacheIdle ==
    /\ grammarCache = EmptyCache
    /\ grammarMutex = [readers |-> {}, writer |-> 0]
    /\ gpc = <<>>
    /\ gcall = <<>>
    /\ gval = <<>>
    /\ loads = 0
    /\ loadEpoch = <<>>
    /\ clears = 0
    /\ calls = 0
    /\ lookups = <<>>

\* no caller around chunkCode: what Part III adds is at rest
FileIdle ==
    /\ filepath = EmptyPath
    /\ opts = ZeroOptions
    /\ nodeTypes = <<>>
    /\ treeHasError = FALSE
    /\ parseFails = FALSE
    /\ entities = <<>>
    /\ scopeTree = EmptyScopeTree
    /\ ret = NoReturn
    /\ emitted = <<>>
    /\ chClosed = FALSE
    /\ prevText = <<>>
    /\ parsed = FALSE

\* Part II at rest, while Part I runs
BatchIdle ==
    /\ mode = "none"
    /\ files = <<>>
    /\ Concurrency = 0
    /\ hasProgress = FALSE
    /\ cancelled = FALSE
    /\ bpc = "idle"
    /\ work = <<>>
    /\ wpc = <<>>
    /\ job = <<>>
    /\ local = <<>>
    /\ results = <<>>
    /\ completed = 0
    /\ mu = 0
    /\ progress = <<>>
    /\ finished = {}
    /\ delivered = <<>>
    /\ closed = FALSE
    /\ consuming = FALSE

InitChunk ==
    /\ CacheIdle
    /\ BatchIdle
    /\ FileIdle
    /\ api = "chunkCode"
    /\ lang = "go"
    /\ code \in Codes
    /\ children \in Forests(0, Len(code), MaxNodes)
    /\ MaxChunkSize \in 0..MaxBudget
    /\ maxSize = 0
    /\ pc = "chunkCode"
    /\ stack = <<>>
    /\ rawWindows = <<>>
    /\ mergedWindows = <<>>
    /\ chunks = <<>>

\* chunkCode up to the call of greedyAssignWindows (codechunk.go 121-144)
ChunkCodeStart ==
    /\ pc = "chunkCode"
    /\ UNCHANGED <<batchVars, fileVars, cacheVars>>
    /\ maxSize' = IF MaxChunkSize = 0 THEN DefaultMaxChunkSize ELSE MaxChunkSize
    /\ stack' = <<Frame(children, <<>>)>>
    /\ pc' = "greedyAssignWindows"
    /\ UNCHANGED <<code, children, MaxChunkSize, rawWindows, mergedWindows, chunks>>

PackGuard == pc = "greedyAssignWindows" /\ Top.i <= Len(Top.nodes)

\* chunking.go 88-90: the node fits the current window
PackFits ==
    /\ PackGuard
    /\ UNCHANGED <<batchVars, fileVars, cacheVars>>
    /\ Top.cur.Size + TopNodeSize <= maxSize
    /\ stack' = SetTop([Top EXCEPT !.cur.Nodes = Append(@, TopRef),
                                   !.cur.Size = @ + TopNodeSize,
                                   !.i = @ + 1])
    /\ UNCHANGED <<code, children, MaxChunkSize, maxSize, pc, rawWindows,
                   mergedWindows, chunks>>

\* chunking.go 91-110: an oversized node with children: flush, recurse
PackOversizedNode ==
    /\ PackGuard
    /\ UNCHANGED <<batchVars, fileVars, cacheVars>>
    /\ ~(Top.cur.Size + TopNodeSize <= maxSize)
    /\ TopNodeSize > maxSize
    /\ ~isLeafNode(TopNode)
    /\ stack' = Append(SetTop([Top EXCEPT !.windows = Flushed(Top),
                                          !.cur = EmptyWindow,
                                          !.i = @ + 1]),
                       Frame(TopNode.kids, TopRef.id))
    /\ UNCHANGED <<code, children, MaxChunkSize, maxSize, pc, rawWindows,
                   mergedWindows, chunks>>

\* chunking.go 91-100, 111-114: an oversized leaf: flush, split by lines
PackOversizedLeaf ==
    /\ PackGuard
    /\ UNCHANGED <<batchVars, fileVars, cacheVars>>
    /\ ~(Top.cur.Size + TopNodeSize <= maxSize)
    /\ TopNodeSize > maxSize
    /\ isLeafNode(TopNode)
    /\ stack' = SetTop([Top EXCEPT
                           !.windows = Flushed(Top)
                                       \o splitOversizedLeafByLines(TopRef, code, maxSize),
                           !.cur = EmptyWindow,
                           !.i = @ + 1])
    /\ UNCHANGED <<code, children, MaxChunkSize, maxSize, pc, rawWindows,
                   mergedWindows, chunks>>

\* chunking.go 115-125: the node fits a window of its own: flush, start one
PackNewWindow ==
    /\ PackGuard
    /\ UNCHANGED <<batchVars, fileVars, cacheVars>>
    /\ ~(Top.cur.Size + TopNodeSize <= maxSize)
    /\ ~(TopNodeSize > maxSize)
    /\ stack' = SetTop([Top EXCEPT
                           !.windows = Flushed(Top),
                           !.cur = [Nodes |-> <<TopRef>>, Size |-> TopNodeSize,
                                    IsPartialNode |-> FALSE, LineRanges |-> <<>>],
                           !.i = @ + 1])
    /\ UNCHANGED <<code, children, MaxChunkSize, maxSize, pc, rawWindows,
                   mergedWindows, chunks>>

\* chunking.go 128-133 and the caller's append (line 110, or codechunk.go 144)
PackReturn ==
    /\ pc = "greedyAssignWindows"
    /\ UNCHANGED <<batchVars, fileVars, cacheVars>>
    /\ Top.i > Len(Top.nodes)
    /\ IF Len(stack) > 1
       THEN /\ stack' = [SubSeq(stack, 1, Len(stack) - 1) EXCEPT
                            ![Len(stack) - 1].windows = @ \o Flushed(Top)]
            /\ UNCHANGED <<pc, rawWindows>>
       ELSE /\ stack' = <<>>
            /\ rawWindows' = Flushed(Top)
            /\ pc' = "mergeAdjacentWindows"
    /\ UNCHANGED <<code, children, MaxChunkSize, maxSize, mergedWindows, chunks>>

\* codechunk.go 147
Merge ==
    /\ pc = "mergeAdjacentWindows"
    /\ UNCHANGED <<batchVars, fileVars, cacheVars>>
    /\ mergedWindows' = mergeAdjacentWindows(rawWindows, maxSize)
    /\ pc' = "rebuildText"
    /\ UNCHANGED <<code, children, MaxChunkSize, maxSize, stack, rawWindows, chunks>>

\* codechunk.go 149-198
Rebuild ==
    /\ pc = "rebuildText"
    /\ api # "ChunkStream"
    /\ UNCHANGED <<batchVars, fileVars, cacheVars>>
    /\ chunks' = BuildChunks(mergedWindows, code)
    /\ pc' = "done"
    /\ UNCHANGED <<code, children, MaxChunkSize, maxSize, stack, rawWindows,
                   mergedWindows>>

NextChunk ==
    \/ ChunkCodeStart
    \/ PackFits
    \/ PackOversizedNode
    \/ PackOversizedLeaf
    \/ PackNewWindow
    \/ PackReturn
    \/ Merge
    \/ Rebuild

Init == InitChunk

Next == NextChunk

Spec == Init /\ [][Next]_vars

(***************************************************************************)
(* Part I, properties.                                                     *)
(***************************************************************************)
Done == pc = "done"

NwsOf(node) == getNwsCountForNode(node, preprocessNwsCumsum(code))

\* The trees a tree-sitter grammar yields for ordinary tokens: every NWS
\* byte lies in a node at each level (the leaves tile the non-whitespace of
\* the source) and a node starts and ends on a NWS byte.
RECURSIVE Tiled(_, _, _)
Tiled(forest, lo, hi) ==
    /\ \A p \in (lo + 1)..hi :
           ~isWhitespace(code[p]) =>
               \E k \in 1..Len(forest) : forest[k].s < p /\ p <= forest[k].e
    /\ \A k \in 1..Len(forest) :
           /\ ~isWhitespace(code[forest[k].s + 1])
           /\ ~isWhitespace(code[forest[k].e])
           /\ isLeafNode(forest[k]) \/ Tiled(forest[k].kids, forest[k].s, forest[k].e)

TokenTree == Tiled(children, 0, Len(code))

\* every line of the source is within the budget, so a split at line
\* boundaries can reach the budget
LinesFitBudget ==
    LET lines == SplitLines(code)
    IN  \A i \in 1..Len(lines) : countNws(lines[i]) <= maxSize

\* the chunks whose byte range holds the byte at 1-based position p
ChunksCovering(p) ==
    {i \in 1..Len(chunks) :
        chunks[i].ByteRange.Start < p /\ p <= chunks[i].ByteRange.End}

\* every node of the tree, as a reference
RECURSIVE AllRefs(_, _)
AllRefs(forest, path) ==
    UNION { {NodeRef(path, k, forest[k])} \cup AllRefs(forest[k].kids, Append(path, k)) :
            k \in 1..Len(forest) }

IsPrefix(p, q) == Len(p) <= Len(q) /\ SubSeq(q, 1, Len(p)) = p

\* the merged windows (= chunks) that hold a node of the subtree of ref
ChunksFrom(ref) ==
    {i \in 1..Len(mergedWindows) :
        \E k \in 1..Len(mergedWindows[i].Nodes) :
            IsPrefix(ref.id, mergedWindows[i].Nodes[k].id)}

SomePartialChunk ==
    \E i \in 1..Len(mergedWindows) : mergedWindows[i].IsPartialNode

\* C1: the chunks Chunk returns have non-overlapping, increasing byte ranges in
\* index order: chunk i ends at or before the start of chunk i+1, for chunks of
\* whole nodes and for line-split chunks of an oversized leaf alike.
\* Stated over token trees; the code violates it for a line-split leaf.
C1_ByteRangesIncrease ==
    (Done /\ TokenTree) =>
        \A i \in 1..(Len(chunks) - 1) :
            chunks[i].ByteRange.End <= chunks[i + 1].ByteRange.Start

\* C2: with max_chunk_size >= 1 the NWS count of every returned chunk's text is
\* within max_chunk_size.  Stated over token trees whose every line is within
\* the budget; the code violates it for a line-split leaf.
C2_ChunksWithinBudget ==
    (Done /\ MaxChunkSize >= 1 /\ TokenTree /\ LinesFitBudget) =>
        \A i \in 1..Len(chunks) : countNws(chunks[i].Text) <= maxSize

\* C3: round trip: each chunk's text is the source slice of its byte range, the
\* ranges are in document order, and every NWS byte of the source lies in
\* exactly one chunk (none missing, none twice), so that the texts joined by the
\* whitespace between the ranges give back the source.  Stated over token
\* trees; the code violates it for a line-split leaf.
C3_RoundTrip ==
    (Done /\ TokenTree) =>
        /\ \A i \in 1..Len(chunks) :
               chunks[i].Text =
                   Slice(code, chunks[i].ByteRange.Start, chunks[i].ByteRange.End)
        /\ \A p \in 1..Len(code) :
               ~isWhitespace(code[p]) => Cardinality(ChunksCovering(p)) = 1

\* the steps chunkCode still has to take: a variant of the state machine
RECURSIVE Weight(_)
Weight(forest) ==
    IF forest = <<>> THEN 0
    ELSE 2 + Weight(Head(forest).kids) + Weight(Tail(forest))

RECURSIVE FramesWeight(_)
FramesWeight(frames) ==
    IF frames = <<>> THEN 0
    ELSE LET f == Head(frames)
         IN  1 + Weight(SubSeq(f.nodes, f.i, Len(f.nodes))) + FramesWeight(Tail(frames))

StepsLeft ==
    CASE pc = "chunkCode" -> Weight(children) + 4
      [] pc = "greedyAssignWindows" -> FramesWeight(stack) + 2
      [] pc = "mergeAdjacentWindows" -> 2
      [] pc = "rebuildText" -> 1
      [] OTHER -> 0

OversizedYieldsChunk ==
    Done => \A ref \in AllRefs(children, <<>>) :
                NwsOf(ref) > maxSize => ChunksFrom(ref) # {}

\* C4: for every finite tree and every budget, also one below every top-level
\* entity, chunking terminates (every step lowers a natural-number variant and
\* a step is possible until the result is returned), one chunk is returned per
\* merged window, and every oversized node, at any depth, yields at least one
\* chunk.
C4_PackTerminates ==
    /\ [](StepsLeft >= 0 /\ (Done \/ ENABLED Next))
    /\ [][StepsLeft' < StepsLeft]_vars
    /\ [](Done => Len(chunks) = Len(mergedWindows))
    /\ []OversizedYieldsChunk

\* a run where the budget is below every top-level entity, greedyAssignWindows
\* recursed into children and the line-split fallback engaged
C4_Witness ==
    /\ Done
    /\ MaxChunkSize >= 1
    /\ children # <<>>
    /\ \A k \in 1..Len(children) : NwsOf(children[k]) > maxSize
    /\ TokenTree
    /\ SomePartialChunk
    /\ \E i \in 1..Len(mergedWindows) :
           \E k \in 1..Len(mergedWindows[i].Nodes) :
               Len(mergedWindows[i].Nodes[k].id) >= 2
    /\ Len(chunks) >= 2

(***************************************************************************)
(* Part II: the batch orchestration (codechunk.go 294-503).                *)
(*                                                                         *)
(* A file is [Filepath, Code].  The single-file pipeline is Part I; here   *)
(* chunkFile is its outcome for a file: the error kinds of chunkFile and   *)
(* parseWithContext, and otherwise the chunk list of that file.            *)
(***************************************************************************)
ErrNone == ""

ErrUnsupportedLanguage == "unsupported language"

ErrParseFailed == "parse failed"

\* the files batches are made of: a Go file, a file of an unsupported
\* extension, and a Go file on which the parser itself fails
FileKinds ==
    { [Filepath |-> "main.go", Code |-> "package main"],
      [Filepath |-> "style.css", Code |-> "body {}"],
      [Filepath |-> "bad.go", Code |-> "unparsable"] }

FileLists == UNION { [1..n -> FileKinds] : n \in 0..MaxFiles }

\* languages.go: the extension table; "" for an extension not in it
DetectLanguage(path) ==
    CASE path = "main.go" -> "go"
      [] path = "bad.go" -> "go"
      [] path = "app.ts" -> "typescript"
      [] OTHER -> ""

\* parser.ParseCtx returned an error
ParserFails(src) == src = "unparsable"

NilChunks == [nil |-> TRUE, of |-> <<>>]

\* the []CodeChunk chunkCode returns for a file: non-nil, determined by the file
ChunksOf(file) == [nil |-> FALSE, of |-> <<file.Filepath, file.Code>>]

\* chunkFile (codechunk.go 61-104) with parseWithContext (parser.go 41-70)
chunkFile(file) ==
    IF DetectLanguage(file.Filepath) = ""
    THEN [chunks |-> NilChunks, err |-> ErrUnsupportedLanguage]
    ELSE IF ParserFails(file.Code)
         THEN [chunks |-> NilChunks, err |-> ErrParseFailed]
         ELSE [chunks |-> ChunksOf(file), err |-> ErrNone]

\* the zero BatchResult of make([]BatchResult, len(files))
ZeroResult == [Filepath |-> "", Chunks |-> NilChunks, Error |-> ErrNone]

\* a result entry that loses the error
BatchResultErrorLost(file, r) ==
    [Filepath |-> file.Filepath, Chunks |-> r.chunks, Error |-> ErrNone]

\* codechunk.go 363-375 and 467-480
BatchResultOf(file, r) ==
    IF r.err # ErrNone
    THEN [Filepath |-> file.Filepath, Chunks |-> NilChunks, Error |-> r.err]
    ELSE [Filepath |-> file.Filepath, Chunks |-> r.chunks, Error |-> ErrNone]

\* a pool one worker larger than configured
EffectiveConcurrencyOneMore(c) == (IF c <= 0 THEN DefaultConcurrency ELSE c) + 1

\* codechunk.go 310-313
EffectiveConcurrency(c) == IF c <= 0 THEN DefaultConcurrency ELSE c

\* a work channel that misses the last file
WorkQueueShort(n) == [i \in 1..(n - 1) |-> i]

\* codechunk.go 316-320 and 420-424: every index, in order, then close(work)
WorkQueue(n) == [i \in 1..n |-> i]

\* the slot of the first file, whatever the index
SlotFirst(idx) == 1

\* codechunk.go 364, 370: results[idx]
Slot(idx) == idx

\* a success flag that is always true
ProgressSuccessAlways(err) == TRUE

\* codechunk.go 380, 485: err == nil
ProgressSuccess(err) == err = ErrNone

Workers == DOMAIN wpc

\* a worker's idx/file, chunks and err before it has taken a job; the
\* variables of a loop iteration are dead once the iteration ends
NoLocal == [chunks |-> NilChunks, err |-> ErrNone]

\* Part I at rest, while Part II runs
ChunkIdle ==
    /\ code = <<>>
    /\ children = <<>>
    /\ MaxChunkSize = 0
    /\ maxSize = 0
    /\ pc = "idle"
    /\ stack = <<>>
    /\ rawWindows = <<>>
    /\ mergedWindows = <<>>
    /\ chunks = <<>>

InitBatch ==
    /\ CacheIdle
    /\ ChunkIdle
    /\ FileIdle
    /\ api = "none"
    /\ lang = ""
    /\ mode \in {"batch", "stream"}
    /\ files \in FileLists
    /\ Concurrency \in 1..MaxConcurrency
    /\ hasProgress \in BOOLEAN
    /\ cancelled = FALSE
    /\ bpc = "call"
    /\ work = <<>>
    /\ wpc = <<>>
    /\ job = <<>>
    /\ local = <<>>
    /\ results = <<>>
    /\ completed = 0
    /\ mu = 0
    /\ progress = <<>>
    /\ finished = {}
    /\ delivered = <<>>
    /\ closed = FALSE
    /\ consuming = TRUE

\* codechunk.go 301-303 and 402-405: no files
BatchEmpty ==
    /\ bpc = "call"
    /\ Len(files) = 0
    /\ bpc' = "returned"
    /\ closed' = (mode = "stream")
    /\ UNCHANGED <<mode, files, Concurrency, hasProgress, cancelled, work, wpc, job,
                   local, results, completed, mu, progress, finished, delivered,
                   consuming>>
    /\ UNCHANGED <<chunkVars, fileVars, cacheVars>>

\* codechunk.go 305-330 and 407-435: fill and close work, start the workers
BatchStart ==
    /\ bpc = "call"
    /\ Len(files) > 0
    /\ work' = WorkQueue(Len(files))
    /\ results' = IF mode = "batch" THEN [i \in 1..Len(files) |-> ZeroResult] ELSE <<>>
    /\ wpc' = [w \in 1..EffectiveConcurrency(Concurrency) |-> "select"]
    /\ job' = [w \in 1..EffectiveConcurrency(Concurrency) |-> 0]
    /\ local' = [w \in 1..EffectiveConcurrency(Concurrency) |-> NoLocal]
    /\ bpc' = "wait"
    /\ UNCHANGED <<mode, files, Concurrency, hasProgress, cancelled, completed, mu,
                   progress, finished, delivered, closed, consuming>>
    /\ UNCHANGED <<chunkVars, fileVars, cacheVars>>

\* the caller cancels the context
Cancel ==
    /\ bpc \in {"call", "wait"}
    /\ ~cancelled
    /\ cancelled' = TRUE
    /\ UNCHANGED <<mode, files, Concurrency, hasProgress, bpc, work, wpc, job, local,
                   results, completed, mu, progress, finished, delivered, closed,
                   consuming>>
    /\ UNCHANGED <<chunkVars, fileVars, cacheVars>>

\* select, case <-ctx.Done(): return (codechunk.go 333-334, 438-439)
WorkerCtxDone(w) ==
    /\ wpc[w] = "select"
    /\ cancelled
    /\ wpc' = [wpc EXCEPT ![w] = "done"]
    /\ UNCHANGED <<mode, files, Concurrency, hasProgress, cancelled, bpc, work, job,
                   local, results, completed, mu, progress, finished, delivered,
                   closed, consuming>>
    /\ UNCHANGED <<chunkVars, fileVars, cacheVars>>

\* select, case idx, ok := <-work with ok (codechunk.go 335, 340; 440).  Go's
\* select picks among its ready cases at random, so this case can be taken
\* while ctx.Done() is ready too.
WorkerTakeJob(w) ==
    /\ wpc[w] = "select"
    /\ work # <<>>
    /\ job' = [job EXCEPT ![w] = Head(work)]
    /\ work' = Tail(work)
    /\ wpc' = [wpc EXCEPT ![w] = "chunkFile"]
    /\ UNCHANGED <<mode, files, Concurrency, hasProgress, cancelled, bpc, local,
                   results, completed, mu, progress, finished, delivered, closed,
                   consuming>>
    /\ UNCHANGED <<chunkVars, fileVars, cacheVars>>

\* select, case <-work with !ok: work is closed and drained (336-338, 441-443)
WorkerWorkClosed(w) ==
    /\ wpc[w] = "select"
    /\ work = <<>>
    /\ wpc' = [wpc EXCEPT ![w] = "done"]
    /\ UNCHANGED <<mode, files, Concurrency, hasProgress, cancelled, bpc, work, job,
                   local, results, completed, mu, progress, finished, delivered,
                   closed, consuming>>
    /\ UNCHANGED <<chunkVars, fileVars, cacheVars>>

\* a stream worker that sends its result before it reports the completion
WorkerChunkFileSendFirst(w) ==
    /\ wpc[w] = "chunkFile"
    /\ local' = [local EXCEPT ![w] = chunkFile(files[job[w]])]
    /\ finished' = finished \cup {job[w]}
    /\ wpc' = [wpc EXCEPT ![w] = IF mode = "batch" THEN "store" ELSE "send"]
    /\ UNCHANGED <<mode, files, Concurrency, hasProgress, cancelled, bpc, work, job,
                   results, completed, mu, progress, delivered, closed, consuming>>
    /\ UNCHANGED <<chunkVars, fileVars, cacheVars>>

\* chunks, err := chunkFile(...) (codechunk.go 361, 465)
WorkerChunkFile(w) ==
    /\ wpc[w] = "chunkFile"
    /\ local' = [local EXCEPT ![w] = chunkFile(files[job[w]])]
    /\ finished' = finished \cup {job[w]}
    /\ wpc' = [wpc EXCEPT ![w] = IF mode = "batch" THEN "store" ELSE "lock"]
    /\ UNCHANGED <<mode, files, Concurrency, hasProgress, cancelled, bpc, work, job,
                   results, completed, mu, progress, delivered, closed, consuming>>
    /\ UNCHANGED <<chunkVars, fileVars, cacheVars>>

\* a worker that leaves its slot alone once the context is cancelled
WorkerStoreUnlessCancelled(w) ==
    /\ wpc[w] = "store"
    /\ results' = IF cancelled THEN results
                  ELSE [results EXCEPT ![Slot(job[w])] =
                            BatchResultOf(files[job[w]], local[w])]
    /\ wpc' = [wpc EXCEPT ![w] = "lock"]
    /\ UNCHANGED <<mode, files, Concurrency, hasProgress, cancelled, bpc, work, job,
                   local, completed, mu, progress, finished, delivered, closed,
                   consuming>>
    /\ UNCHANGED <<chunkVars, fileVars, cacheVars>>

\* results[idx] = BatchResult{...} (codechunk.go 363-375)
WorkerStore(w) ==
    /\ wpc[w] = "store"
    /\ results' = [results EXCEPT ![Slot(job[w])] =
                       BatchResultOf(files[job[w]], local[w])]
    /\ wpc' = [wpc EXCEPT ![w] = "lock"]
    /\ UNCHANGED <<mode, files, Concurrency, hasProgress, cancelled, bpc, work, job,
                   local, completed, mu, progress, finished, delivered, closed,
                   consuming>>
    /\ UNCHANGED <<chunkVars, fileVars, cacheVars>>

\* a worker that counts and reports without waiting for the mutex
WorkerLockUnguarded(w) ==
    /\ wpc[w] = "lock"
    /\ mu' = w
    /\ completed' = completed + 1
    /\ progress' = IF hasProgress
                   THEN Append(progress,
                               [completed |-> completed + 1,
                                total |-> Len(files),
                                filepath |-> files[job[w]].Filepath,
                                success |-> ProgressSuccess(local[w].err),
                                job |-> job[w]])
                   ELSE progress
    /\ wpc' = [wpc EXCEPT ![w] = "unlock"]
    /\ UNCHANGED <<mode, files, Concurrency, hasProgress, cancelled, bpc, work, job,
                   local, results, finished, delivered, closed, consuming>>
    /\ UNCHANGED <<chunkVars, fileVars, cacheVars>>

\* mu.Lock(); completed++; the call of OnProgress (codechunk.go 377-381, 482-486)
WorkerLock(w) ==
    /\ wpc[w] = "lock"
    /\ mu = 0
    /\ mu' = w
    /\ completed' = completed + 1
    /\ progress' = IF hasProgress
                   THEN Append(progress,
                               [completed |-> completed + 1,
                                total |-> Len(files),
                                filepath |-> files[job[w]].Filepath,
                                success |-> ProgressSuccess(local[w].err),
                                job |-> job[w]])
                   ELSE progress
    /\ wpc' = [wpc EXCEPT ![w] = "unlock"]
    /\ UNCHANGED <<mode, files, Concurrency, hasProgress, cancelled, bpc, work, job,
                   local, results, finished, delivered, closed, consuming>>
    /\ UNCHANGED <<chunkVars, fileVars, cacheVars>>

\* OnProgress returned; mu.Unlock() (codechunk.go 382, 487)
WorkerUnlock(w) ==
    /\ wpc[w] = "unlock"
    /\ mu = w
    /\ mu' = 0
    /\ wpc' = [wpc EXCEPT ![w] = IF mode = "batch" THEN "select" ELSE "send"]
    /\ job' = IF mode = "batch" THEN [job EXCEPT ![w] = 0] ELSE job
    /\ local' = IF mode = "batch" THEN [local EXCEPT ![w] = NoLocal] ELSE local
    /\ UNCHANGED <<mode, files, Concurrency, hasProgress, cancelled, bpc, work,
                   results, completed, progress, finished, delivered, closed,
                   consuming>>
    /\ UNCHANGED <<chunkVars, fileVars, cacheVars>>

\* select, case ch <- result: the consumer receives (codechunk.go 492)
WorkerSend(w) ==
    /\ wpc[w] = "send"
    /\ consuming
    /\ delivered' = Append(delivered,
                           [job |-> job[w],
                            result |-> BatchResultOf(files[job[w]], local[w])])
    /\ wpc' = [wpc EXCEPT ![w] = "select"]
    /\ job' = [job EXCEPT ![w] = 0]
    /\ local' = [local EXCEPT ![w] = NoLocal]
    /\ UNCHANGED <<mode, files, Concurrency, hasProgress, cancelled, bpc, work,
                   results, completed, mu, progress, finished, closed, consuming>>
    /\ UNCHANGED <<chunkVars, fileVars, cacheVars>>

\* a send that does not watch the context
WorkerSendBlocks(w) ==
    /\ FALSE
    /\ UNCHANGED vars

\* select, case <-ctx.Done(): return, the result dropped (codechunk.go 490-491)
WorkerSendCtxDone(w) ==
    /\ wpc[w] = "send"
    /\ cancelled
    /\ wpc' = [wpc EXCEPT ![w] = "done"]
    /\ job' = [job EXCEPT ![w] = 0]
    /\ local' = [local EXCEPT ![w] = NoLocal]
    /\ UNCHANGED <<mode, files, Concurrency, hasProgress, cancelled, bpc, work,
                   results, completed, mu, progress, finished, delivered, closed,
                   consuming>>
    /\ UNCHANGED <<chunkVars, fileVars, cacheVars>>

\* the consumer of the stream stops receiving, which it does only once the
\* context is cancelled
ConsumerStop ==
    /\ mode = "stream"
    /\ bpc = "wait"
    /\ cancelled
    /\ consuming
    /\ consuming' = FALSE
    /\ UNCHANGED <<mode, files, Concurrency, hasProgress, cancelled, bpc, work, wpc,
                   job, local, results, completed, mu, progress, finished, delivered,
                   closed>>
    /\ UNCHANGED <<chunkVars, fileVars, cacheVars>>

\* wg.Wait() returns; return results (388-390) or close(ch) (418, 499)
BatchReturn ==
    /\ bpc = "wait"
    /\ \A w \in Workers : wpc[w] = "done"
    /\ bpc' = "returned"
    /\ closed' = (mode = "stream")
    /\ UNCHANGED <<mode, files, Concurrency, hasProgress, cancelled, work, wpc, job,
                   local, results, completed, mu, progress, finished, delivered,
                   consuming>>
    /\ UNCHANGED <<chunkVars, fileVars, cacheVars>>

WorkerStep(w) ==
    \/ WorkerCtxDone(w)
    \/ WorkerTakeJob(w)
    \/ WorkerWorkClosed(w)
    \/ WorkerChunkFile(w)
    \/ WorkerStore(w)
    \/ WorkerLock(w)
    \/ WorkerUnlock(w)
    \/ WorkerSend(w)
    \/ WorkerSendCtxDone(w)

NextBatch ==
    \/ BatchEmpty
    \/ BatchStart
    \/ Cancel
    \/ ConsumerStop
    \/ BatchReturn
    \/ \E w \in Workers : WorkerCtxDone(w)
    \/ \E w \in Workers : WorkerTakeJob(w)
    \/ \E w \in Workers : WorkerWorkClosed(w)
    \/ \E w \in Workers : WorkerChunkFile(w)
    \/ \E w \in Workers : WorkerStore(w)
    \/ \E w \in Workers : WorkerLock(w)
    \/ \E w \in Workers : WorkerUnlock(w)
    \/ \E w \in Workers : WorkerSend(w)
    \/ \E w \in Workers : WorkerSendCtxDone(w)

SpecBatch == InitBatch /\ [][NextBatch]_vars

\* The steps of the goroutines of a call: the caller's and the workers'
Running ==
    \/ BatchEmpty
    \/ BatchStart
    \/ BatchReturn
    \/ \E w \in Workers : WorkerStep(w)

\* The Go scheduler does not stop while a goroutine is runnable: as long as
\* the caller or a worker can take a step, one of them does.  The caller
\* owes no cancellation and the consumer no departure.
FairSpecBatch == SpecBatch /\ WF_vars(Running)

(***************************************************************************)
(* Part II, properties.                                                    *)
(***************************************************************************)
Returned == bpc = "returned"

\* What processing a file on its own gives, written out per kind of file:
\* the result entry of the file alone.
AloneResult(file) ==
    CASE file.Filepath = "main.go" ->
             [Filepath |-> "main.go",
              Chunks |-> [nil |-> FALSE, of |-> <<"main.go", "package main">>],
              Error |-> ""]
      [] file.Filepath = "style.css" ->
             [Filepath |-> "style.css",
              Chunks |-> [nil |-> TRUE, of |-> <<>>],
              Error |-> "unsupported language"]
      [] file.Filepath = "bad.go" ->
             [Filepath |-> "bad.go",
              Chunks |-> [nil |-> TRUE, of |-> <<>>],
              Error |-> "parse failed"]

\* the positions of the progress log / of the delivered results about job i
ProgressOf(i) == {k \in 1..Len(progress) : progress[k].job = i}

DeliveredOf(i) == {k \in 1..Len(delivered) : delivered[k].job = i}

\* C5: with an uncancelled context the synchronous batch call returns exactly
\* len(files) entries and entry i is the result of files[i], with its Filepath,
\* whatever the worker count and the order in which the workers finish.
C5_BatchKeepsInputOrder ==
    (mode = "batch" /\ Returned /\ ~cancelled) =>
        /\ Len(results) = Len(files)
        /\ \A i \in 1..Len(files) :
               /\ results[i].Filepath = files[i].Filepath
               /\ results[i] = AloneResult(files[i])

\* two different files, the second of which completed first
C5_Witness ==
    /\ mode = "batch"
    /\ Returned
    /\ ~cancelled
    /\ Len(files) = 2
    /\ files[1] # files[2]
    /\ Len(progress) = 2
    /\ progress[1].job = 2

\* C6: in both batch calls a file that fails with UnsupportedLanguage or
\* ParseFailed yields an entry with that error and nil chunks, every entry
\* written or delivered is the result of its file processed alone, and with an
\* uncancelled context every file gets its entry: an error aborts nothing.
C6_ErrorsAreIsolated ==
    /\ \A i \in 1..Len(results) :
           results[i] # ZeroResult => results[i] = AloneResult(files[i])
    /\ \A k \in 1..Len(delivered) :
           delivered[k].result = AloneResult(files[delivered[k].job])
    /\ (Returned /\ ~cancelled) =>
           \A i \in 1..Len(files) :
               IF mode = "batch" THEN results[i] # ZeroResult
               ELSE DeliveredOf(i) # {}

\* a batch whose first file fails and whose second file has its chunks
C6_Witness ==
    /\ mode = "batch"
    /\ Returned
    /\ Len(files) = 2
    /\ results[1].Error = "unsupported language"
    /\ results[1].Chunks.nil
    /\ results[2].Error = ""
    /\ ~results[2].Chunks.nil

\* C7: on_progress is invoked at most once per file, only for a file whose
\* pipeline has returned, with that file's path and success = (error == nil);
\* with an uncancelled context, once the call is over it has been invoked
\* exactly once for every file.
C7_ProgressOncePerFile ==
    /\ \A k \in 1..Len(progress) :
           /\ progress[k].job \in finished
           /\ progress[k].filepath = files[progress[k].job].Filepath
           /\ progress[k].success = (AloneResult(files[progress[k].job]).Error = "")
    /\ \A i \in 1..Len(files) : Cardinality(ProgressOf(i)) <= 1
    /\ (hasProgress /\ Returned /\ ~cancelled) =>
           \A i \in 1..Len(files) : Cardinality(ProgressOf(i)) = 1

\* a finished stream that reported a failure and a success
C7_Witness ==
    /\ mode = "stream"
    /\ Returned
    /\ ~cancelled
    /\ Len(progress) = 2
    /\ ~progress[1].success
    /\ progress[2].success

\* C8: once the context is cancelled no worker takes a further job: the work
\* source is never shortened again.  The code violates it: a worker's select
\* can take a job although ctx.Done() is ready.
C8_NoJobAfterCancel == [][cancelled => work' = work]_vars

\* C9: under a fair scheduler, and with a consumer that receives until the
\* channel closes or the context is cancelled, the synchronous call returns
\* and the stream's channel is closed, whenever the context is cancelled.
C9_BatchEnds == <>(Returned /\ (mode = "stream" => closed))

\* a stream closed after a cancellation that made a worker drop its result
C9_Witness ==
    /\ mode = "stream"
    /\ Returned
    /\ closed
    /\ cancelled
    /\ ~consuming
    /\ Len(delivered) < completed

\* C10: with an uncancelled context and a draining consumer the stream
\* delivers len(files) results, exactly one per file and that file's, before
\* the channel closes; no result is ever delivered twice or after the close;
\* an empty input closes the channel with nothing delivered.
C10_StreamDeliversEachOnce ==
    mode = "stream" =>
        /\ \A i \in 1..Len(files) : Cardinality(DeliveredOf(i)) <= 1
        /\ \A k \in 1..Len(delivered) :
               /\ delivered[k].job \in finished
               /\ delivered[k].result = AloneResult(files[delivered[k].job])
        /\ closed => \A w \in Workers : wpc[w] = "done"
        /\ (Returned /\ ~cancelled) =>
               /\ closed
               /\ Len(delivered) = Len(files)
               /\ \A i \in 1..Len(files) : Cardinality(DeliveredOf(i)) = 1
        /\ Len(files) = 0 => delivered = <<>>

\* a closed stream of two files whose results arrived out of input order
C10_Witness ==
    /\ mode = "stream"
    /\ closed
    /\ ~cancelled
    /\ Len(delivered) = 2
    /\ delivered[1].job = 2
    /\ delivered[2].job = 1

(***************************************************************************)
(* Part II, the worker pool when the configured concurrency is <= 0.       *)
(***************************************************************************)
\* A call that leaves the concurrency unset (0) or sets it negative, with one
\* file: the pool of the default size with a single job to share.
InitBatchDefault ==
    /\ CacheIdle
    /\ ChunkIdle
    /\ FileIdle
    /\ api = "none"
    /\ lang = ""
    /\ mode \in {"batch", "stream"}
    /\ files \in [1..1 -> {f \in FileKinds : f.Filepath = "main.go"}]
    /\ Concurrency \in {-1, 0}
    /\ hasProgress = FALSE
    /\ cancelled = FALSE
    /\ bpc = "call"
    /\ work = <<>>
    /\ wpc = <<>>
    /\ job = <<>>
    /\ local = <<>>
    /\ results = <<>>
    /\ completed = 0
    /\ mu = 0
    /\ progress = <<>>
    /\ finished = {}
    /\ delivered = <<>>
    /\ closed = FALSE
    /\ consuming = TRUE

\* every batch call: the configured pools and the default pool
SpecPool == (InitBatch \/ InitBatchDefault) /\ [][NextBatch]_vars

\* the single-file pipelines running at this moment
RunningPipelines == {w \in Workers : wpc[w] = "chunkFile"}

\* the limit the options ask for
ConcurrencyLimit == IF Concurrency <= 0 THEN 10 ELSE Concurrency

\* C11: at every moment of a batch call at most `concurrency` single-file
\* pipelines run at once, 10 when the configured concurrency is <= 0, for
\* every number of files: the pool never has more workers than the limit and
\* each worker runs one pipeline at a time.
C11_PipelinesWithinLimit ==
    /\ Cardinality(RunningPipelines) <= ConcurrencyLimit
    /\ Cardinality(Workers) <= ConcurrencyLimit

\* two pipelines at once in a pool of two; the default pool of ten at work
C11_Witness ==
    /\ Concurrency = 2
    /\ Cardinality(RunningPipelines) = 2

C11_WitnessDefault ==
    /\ Concurrency <= 0
    /\ Cardinality(Workers) = 10
    /\ Cardinality(RunningPipelines) = 1

(***************************************************************************)
(* Part III: one call of Chunk / ChunkBytes (chunkFile, codechunk.go       *)
(* 43-104) or of ChunkStream (codechunk.go 203-292).                       *)
(*                                                                         *)
(* The parser is an input: the tree it returns for the source (children,   *)
(* nodeTypes), whether that tree has structural errors (treeHasError) and  *)
(* whether ParseCtx itself fails (parseFails).  The windowing steps        *)
(* (ChunkCodeStart .. Merge) are those of Part I; ChunkStream's goroutine  *)
(* runs the same steps and then sends one chunk at a time.  The channel is *)
(* unbuffered and its receiver keeps receiving, so a send is one step.     *)
(*                                                                         *)
(* Declarations nest properly in the trees of the grammars: a declaration  *)
(* inside another one has a strictly smaller byte range (it lies in the    *)
(* other's body).  The labelled trees of the model are the ones with this  *)
(* property.                                                               *)
(***************************************************************************)
\* the node types trees are labelled with (Go)
NodeTypes == {"identifier", "function_declaration", "import_declaration"}

\* the languages a call may name: unset, two with a grammar, one without
LanguageNames == {"", "go", "typescript", "cobol"}

\* getLanguageGrammar(lang) != nil (languages.go 63-99)
HasGrammar(language) ==
    language \in {"typescript", "javascript", "python", "rust", "go", "java"}

\* filepath.Base
Base(path) == path[Len(path)]

\* a resolution that asks the path first
ResolveLanguagePathFirst(o, path) ==
    IF DetectLanguage(Base(path)) # "" THEN DetectLanguage(Base(path)) ELSE o.Language

\* codechunk.go 63-66 and 209-212
ResolveLanguage(o, path) ==
    IF o.Language # "" THEN o.Language ELSE DetectLanguage(Base(path))

NodeIds(forest) == {ref.id : ref \in AllRefs(forest, <<>>)}

\* a declaration node below a declaration node is strictly smaller than it
DeclarationsNest(forest, types, language) ==
    \A outer, inner \in AllRefs(forest, <<>>) :
        /\ outer.id # inner.id
        /\ IsPrefix(outer.id, inner.id)
        /\ isEntityNodeType(types[outer.id], language)
        /\ isEntityNodeType(types[inner.id], language)
        => (inner.e - inner.s) < (outer.e - outer.s)

\* the sources of one byte value
PlainCodes == { [k \in 1..n |-> 97] : n \in 0..MaxLen }

\* a call that has not started
FileStart ==
    /\ CacheIdle
    /\ BatchIdle
    /\ maxSize = 0
    /\ stack = <<>>
    /\ rawWindows = <<>>
    /\ mergedWindows = <<>>
    /\ chunks = <<>>
    /\ lang = ""
    /\ entities = <<>>
    /\ scopeTree = EmptyScopeTree
    /\ ret = NoReturn
    /\ emitted = <<>>
    /\ chClosed = FALSE
    /\ prevText = <<>>
    /\ parsed = FALSE
    /\ api \in {"Chunk", "ChunkStream"}
    /\ pc = api

\* calls on Go files of one byte value, every tree and every labelling of it
InitTrees ==
    /\ FileStart
    /\ code \in PlainCodes
    /\ children \in Forests(0, Len(code), MaxNodes)
    /\ nodeTypes \in [NodeIds(children) -> NodeTypes]
    /\ DeclarationsNest(children, nodeTypes, "go")
    /\ MaxChunkSize \in 0..MaxBudget
    /\ filepath = <<"main.go">>
    /\ opts = ZeroOptions
    /\ treeHasError = FALSE
    /\ parseFails = FALSE

\* the trees without nesting
FlatForests(hi) == {f \in Forests(0, hi, MaxNodes) : \A k \in 1..Len(f) : isLeafNode(f[k])}

\* calls with an overlap option, on every source under a tree of leaves
\* that are no declarations; the budget is explicit, for several chunks
InitOverlap ==
    /\ FileStart
    /\ code \in Codes
    /\ children \in FlatForests(Len(code))
    /\ nodeTypes = [id \in NodeIds(children) |-> "identifier"]
    /\ MaxChunkSize \in 1..MaxBudget
    /\ filepath = <<"main.go">>
    /\ opts \in { [ZeroOptions EXCEPT !.OverlapLines = n, !.ContextMode = m] :
                     n \in {-1, 0, 1, 2}, m \in {"", "none"} }
    /\ treeHasError = FALSE
    /\ parseFails = FALSE

\* calls with every combination of the context options, on the longest
\* source of one byte value under every labelled tree of leaves
InitOptions ==
    /\ FileStart
    /\ code = [k \in 1..MaxLen |-> 97]
    /\ children \in FlatForests(Len(code))
    /\ nodeTypes \in [NodeIds(children) -> NodeTypes]
    /\ MaxChunkSize = 1
    /\ filepath = <<"main.go">>
    /\ opts \in { [ZeroOptions EXCEPT !.ContextMode = m, !.SiblingDetail = d,
                                       !.FilterImports = f, !.OverlapLines = n] :
                     m \in {"", "none", "minimal"}, d \in {"", "none", "names"},
                     f \in BOOLEAN, n \in {-1, 0} }
    /\ treeHasError = FALSE
    /\ parseFails = FALSE

\* calls on paths of several extensions and depths, with and without a
\* language override, on trees with and without structural errors and with
\* a parser that fails or not
InitLanguage ==
    /\ FileStart
    /\ code \in PlainCodes
    /\ children \in FlatForests(Len(code))
    /\ nodeTypes = [id \in NodeIds(children) |-> "identifier"]
    /\ MaxChunkSize \in 0..1
    /\ filepath \in {<<"main.go">>, <<"style.css">>, <<"app.ts">>,
                      <<"srv", "api", "v1", "main.go">>, EmptyPath}
    /\ opts \in { [ZeroOptions EXCEPT !.Language = l] : l \in LanguageNames }
    /\ treeHasError \in BOOLEAN
    /\ parseFails \in BOOLEAN

InitFile == InitTrees \/ InitOverlap \/ InitOptions \/ InitLanguage

\* chunkFile 63-69, ChunkStream 209-215
FileResolveLanguage ==
    /\ pc \in {"Chunk", "ChunkStream"}
    /\ lang' = ResolveLanguage(opts, filepath)
    /\ IF lang' = ""
       THEN /\ ret' = [done |-> TRUE, nil |-> TRUE, err |-> ErrUnsupportedLanguage]
            /\ pc' = "returned"
       ELSE /\ pc' = "parse"
            /\ UNCHANGED ret
    /\ UNCHANGED <<code, children, MaxChunkSize, maxSize, stack, rawWindows,
                   mergedWindows, chunks>>
    /\ UNCHANGED <<api, filepath, opts, nodeTypes, treeHasError, parseFails, entities,
                   scopeTree, emitted, chClosed, prevText, parsed>>
    /\ UNCHANGED <<batchVars, cacheVars>>

\* parseWithContext 42-45: no grammar for the language
FileNoGrammar ==
    /\ pc = "parse"
    /\ ~HasGrammar(lang)
    /\ ret' = [done |-> TRUE, nil |-> TRUE, err |-> ErrUnsupportedLanguage]
    /\ pc' = "returned"
    /\ UNCHANGED <<code, children, MaxChunkSize, maxSize, stack, rawWindows,
                   mergedWindows, chunks>>
    /\ UNCHANGED <<api, filepath, opts, nodeTypes, treeHasError, parseFails, lang,
                   entities, scopeTree, emitted, chClosed, prevText, parsed>>
    /\ UNCHANGED <<batchVars, cacheVars>>

\* parseWithContext 47-57: ParseCtx returns an error
FileParseFails ==
    /\ pc = "parse"
    /\ HasGrammar(lang)
    /\ parseFails
    /\ parsed' = TRUE
    /\ ret' = [done |-> TRUE, nil |-> TRUE, err |-> ErrParseFailed]
    /\ pc' = "returned"
    /\ UNCHANGED <<code, children, MaxChunkSize, maxSize, stack, rawWindows,
                   mergedWindows, chunks>>
    /\ UNCHANGED <<api, filepath, opts, nodeTypes, treeHasError, parseFails, lang,
                   entities, scopeTree, emitted, chClosed, prevText>>
    /\ UNCHANGED <<batchVars, cacheVars>>

\* parseWithContext 47-69, then extractEntities and buildScopeTree (chunkFile
\* 78-81, ChunkStream 222-223); ChunkStream returns its channel here and the
\* rest of it is the goroutine
FileParse ==
    /\ pc = "parse"
    /\ HasGrammar(lang)
    /\ ~parseFails
    /\ parsed' = TRUE
    /\ entities' = extractEntities(children, nodeTypes, lang, code)
    /\ scopeTree' = buildScopeTree(entities')
    /\ ret' = IF api = "ChunkStream"
              THEN [done |-> TRUE, nil |-> FALSE, err |-> ErrNone]
              ELSE ret
    /\ pc' = "chunkCode"
    /\ UNCHANGED <<code, children, MaxChunkSize, maxSize, stack, rawWindows,
                   mergedWindows, chunks>>
    /\ UNCHANGED <<api, filepath, opts, nodeTypes, treeHasError, parseFails, lang,
                   emitted, chClosed, prevText>>
    /\ UNCHANGED <<batchVars, cacheVars>>

\* chunkFile 96-101
WithParseError(list, hasError) ==
    IF hasError
    THEN [k \in 1..Len(list) |-> [list[k] EXCEPT !.Context.ParseError = RecoverableParseError]]
    ELSE list

\* chunkFile 96-103: chunkCode has returned its list
FileReturn ==
    /\ pc = "done"
    /\ api = "Chunk"
    /\ chunks' = WithParseError(chunks, treeHasError)
    /\ ret' = [done |-> TRUE, nil |-> FALSE, err |-> ErrNone]
    /\ pc' = "returned"
    /\ UNCHANGED <<code, children, MaxChunkSize, maxSize, stack, rawWindows,
                   mergedWindows>>
    /\ UNCHANGED <<api, filepath, opts, nodeTypes, treeHasError, parseFails, lang,
                   entities, scopeTree, emitted, chClosed, prevText, parsed>>
    /\ UNCHANGED <<batchVars, cacheVars>>

\* the chunk ChunkStream sends for window i (1-based), prev being prevText
StreamChunk(i, prev) ==
    LET text == rebuildText(mergedWindows[i], code)
        o == WithDefaults(opts)
    IN  CodeChunk(text,
                  ContextFor(text, scopeTree, o, filepath, lang),
                  StreamOverlapText(o, prev),
                  i - 1,
                  -1)

\* ChunkStream 250-288: one iteration of the loop, the send included
StreamSend ==
    /\ pc = "rebuildText"
    /\ api = "ChunkStream"
    /\ Len(emitted) < Len(mergedWindows)
    /\ emitted' = Append(emitted, StreamChunk(Len(emitted) + 1, prevText))
    /\ prevText' = rebuildText(mergedWindows[Len(emitted) + 1], code).text
    /\ UNCHANGED <<code, children, MaxChunkSize, maxSize, pc, stack, rawWindows,
                   mergedWindows, chunks>>
    /\ UNCHANGED <<api, filepath, opts, nodeTypes, treeHasError, parseFails, lang,
                   entities, scopeTree, ret, chClosed, parsed>>
    /\ UNCHANGED <<batchVars, cacheVars>>

\* ChunkStream 228: the deferred close, when the loop is over
StreamClose ==
    /\ pc = "rebuildText"
    /\ api = "ChunkStream"
    /\ Len(emitted) = Len(mergedWindows)
    /\ chClosed' = TRUE
    /\ pc' = "closed"
    /\ UNCHANGED <<code, children, MaxChunkSize, maxSize, stack, rawWindows,
                   mergedWindows, chunks>>
    /\ UNCHANGED <<api, filepath, opts, nodeTypes, treeHasError, parseFails, lang,
                   entities, scopeTree, ret, emitted, prevText, parsed>>
    /\ UNCHANGED <<batchVars, cacheVars>>

NextFile ==
    \/ FileResolveLanguage
    \/ FileNoGrammar
    \/ FileParseFails
    \/ FileParse
    \/ ChunkCodeStart
    \/ PackFits
    \/ PackOversizedNode
    \/ PackOversizedLeaf
    \/ PackNewWindow
    \/ PackReturn
    \/ Merge
    \/ Rebuild
    \/ FileReturn
    \/ StreamSend
    \/ StreamClose

SpecFile == InitFile /\ [][NextFile]_vars

(***************************************************************************)
(* Claims about Part III.                                                  *)
(***************************************************************************)
\* the chunks the call has produced so far: the list chunkCode built, or
\* what ChunkStream has sent
Produced == IF api = "ChunkStream" THEN emitted ELSE chunks

\* the context mode in force
ContextModeInForce == WithDefaults(opts).ContextMode

\* the two byte ranges have a byte in common (open-interval test)
Overlapping(a, b) == a.Start < b.End /\ b.Start < a.End

Inside(inner, outer) == outer.Start <= inner.Start /\ inner.End <= outer.End

\* the places of an entity in a chunk's entities-in-chunk list
ListedAt(e, c) ==
    {k \in 1..Len(c.Context.Entities) : c.Context.Entities[k].Name = e.Name}

\* e is listed in c exactly when it overlaps c, and then once, with its type
\* and tagged partial exactly when it is not inside c
ListedRight(e, c) ==
    IF Overlapping(e.ByteRange, c.ByteRange)
    THEN /\ Cardinality(ListedAt(e, c)) = 1
         /\ \A k \in ListedAt(e, c) :
                /\ c.Context.Entities[k].Type = e.Type
                /\ c.Context.Entities[k].IsPartial = ~Inside(e.ByteRange, c.ByteRange)
    ELSE ListedAt(e, c) = {}

\* C12 as stated: every entity of the file that overlaps a chunk is in that
\* chunk's entities-in-chunk list, tagged partial iff it is not fully inside
\* the chunk, and an entity that does not overlap the chunk is not listed.
\* Violated: with context_mode = none the list of every chunk is empty.
C12_EntitiesListed ==
    \A i \in 1..Len(Produced) : \A j \in 1..Len(entities) :
        ListedRight(entities[j], Produced[i])

\* C12, amended: when context_mode is not none, every entity of the file
\* that overlaps a chunk is in that chunk's entities-in-chunk list, tagged
\* partial iff it is not fully inside the chunk, and an entity that does not
\* overlap the chunk is not listed.
C12_EntitiesListedUnlessNone ==
    ContextModeInForce # "none" =>
        \A i \in 1..Len(Produced) : \A j \in 1..Len(entities) :
            ListedRight(entities[j], Produced[i])

\* a chunk with an entity inside it, an entity partly in it and an entity
\* that does not overlap it
C12_Witness ==
    /\ ContextModeInForce # "none"
    /\ \E i \in 1..Len(Produced) : \E j1, j2, j3 \in 1..Len(entities) :
           /\ Overlapping(entities[j1].ByteRange, Produced[i].ByteRange)
           /\ Inside(entities[j1].ByteRange, Produced[i].ByteRange)
           /\ Overlapping(entities[j2].ByteRange, Produced[i].ByteRange)
           /\ ~Inside(entities[j2].ByteRange, Produced[i].ByteRange)
           /\ ~Overlapping(entities[j3].ByteRange, Produced[i].ByteRange)

\* the offsets of the source, and one on either side
Offsets == -1..(Len(code) + 1)

ScopeNodes == 1..Len(scopeTree.Nodes)

RangeOf(n) == scopeTree.Nodes[n].Entity.ByteRange

RangeSize(n) == RangeOf(n).End - RangeOf(n).Start

\* scopeAtOffset(x), then its ancestor chain; empty when x has no scope
ScopeChain(x) ==
    LET n == findScopeAtOffset(scopeTree, x)
    IN  IF n = 0 THEN <<>> ELSE <<n>> \o getAncestorChain(scopeTree, n)

C14_ScopeTreeShape ==
    /\ \A n \in ScopeNodes :
           LET kids == scopeTree.Nodes[n].Children
           IN  /\ \A k \in 1..Len(kids) :
                      /\ kids[k] \in ScopeNodes
                      /\ scopeTree.Nodes[kids[k]].Parent = n
                      /\ Inside(RangeOf(kids[k]), RangeOf(n))
               /\ \A k1, k2 \in 1..Len(kids) :
                      k1 < k2 => RangeOf(kids[k1]).End <= RangeOf(kids[k2]).Start
    /\ \A m \in ScopeNodes :
           LET parent == scopeTree.Nodes[m].Parent
           IN  IF parent = 0
               THEN \E k \in 1..Len(scopeTree.Root) : scopeTree.Root[k] = m
               ELSE /\ parent \in ScopeNodes
                    /\ Cardinality({k \in 1..Len(scopeTree.Nodes[parent].Children) :
                                        scopeTree.Nodes[parent].Children[k] = m}) = 1

\* a declaration with two declarations in it
C14_Witness ==
    \E n \in ScopeNodes : Len(scopeTree.Nodes[n].Children) >= 2

\* x is in the half-open range of scope node n
HasOffset(n, x) == RangeOf(n).Start <= x /\ x < RangeOf(n).End

\* m lies below n in the scope tree
RECURSIVE IsBelow(_, _)
IsBelow(m, n) ==
    \E k \in 1..Len(scopeTree.Nodes[n].Children) :
        \/ scopeTree.Nodes[n].Children[k] = m
        \/ IsBelow(m, scopeTree.Nodes[n].Children[k])

\* C15: findScopeAtOffset returns a scope node whose half-open range holds
\* the offset and below which no node holds it (the innermost one: every
\* node that holds the offset is that node or above it), and it returns none
\* exactly when no scope node holds the offset; the end of a node's range is
\* outside the node.
C15_InnermostScope ==
    \A x \in Offsets :
        LET n == findScopeAtOffset(scopeTree, x)
        IN  IF n = 0
            THEN \A m \in ScopeNodes : ~HasOffset(m, x)
            ELSE /\ n \in ScopeNodes
                 /\ HasOffset(n, x)
                 /\ \A m \in ScopeNodes : IsBelow(m, n) => ~HasOffset(m, x)
                 /\ \A m \in ScopeNodes : HasOffset(m, x) => m = n \/ IsBelow(n, m)

\* an offset in two nested declarations, for which the inner one is found,
\* and the end of a declaration, for which that declaration is not found
C15_Witness ==
    /\ \E x \in Offsets : \E m \in ScopeNodes :
           /\ findScopeAtOffset(scopeTree, x) # 0
           /\ IsBelow(findScopeAtOffset(scopeTree, x), m)
           /\ HasOffset(m, x)
    /\ \E n \in ScopeNodes :
           /\ findScopeAtOffset(scopeTree, RangeOf(n).End) # n
           /\ findScopeAtOffset(scopeTree, RangeOf(n).End - 1) = n

\* the chunks the caller has been given: the list Chunk returned, or what
\* ChunkStream has sent
Given ==
    IF api = "ChunkStream" THEN emitted
    ELSE IF ret.done /\ ~ret.nil THEN chunks ELSE <<>>

\* the note a chunk of this call should carry
ExpectedParseError == IF treeHasError THEN RecoverableParseError ELSE NoParseError

\* the call got a tree from the parser
GotTree == parsed /\ ~parseFails

\* C16: when the parsed tree has structural errors the call still succeeds
\* and every chunk given to the caller carries a parse-error note with
\* recoverable = true, and when the tree has none no chunk carries a note.
\* Violated by ChunkStream, which never attaches the note.
C16_ParseErrorNoted ==
    /\ ret.done /\ GotTree => ret.err = ErrNone
    /\ \A i \in 1..Len(Given) : Given[i].Context.ParseError = ExpectedParseError

\* C16 for Chunk / ChunkBytes alone (chunkFile), where it holds
C16_ParseErrorNotedByChunk ==
    api = "Chunk" => C16_ParseErrorNoted

\* the language the call is to use: the override when one is set, else the
\* language of the path's extension
ResolvedLanguage ==
    IF opts.Language # "" THEN opts.Language ELSE DetectLanguage(Base(filepath))

\* C17: a call that has returned has returned UnsupportedLanguage exactly
\* when the resolved language (the override if set, else the one detected
\* from the path) has no grammar, and then it returned no chunks and no
\* channel and the parser was never run.
C17_UnsupportedLanguage ==
    ret.done =>
        /\ ret.err = ErrUnsupportedLanguage <=> ~HasGrammar(ResolvedLanguage)
        /\ ret.err = ErrUnsupportedLanguage =>
               /\ ret.nil
               /\ ~parsed
               /\ chunks = <<>>
               /\ emitted = <<>>

\* a Go path with an override that has no grammar, refused although the
\* parser would have been given the source otherwise
C17_Witness ==
    /\ ret.done
    /\ ret.err = ErrUnsupportedLanguage
    /\ opts.Language = "cobol"
    /\ DetectLanguage(Base(filepath)) = "go"

\* an unsupported path with an override that has a grammar, chunked
C17_WitnessOverrideAccepted ==
    /\ ret.done
    /\ ret.err = ErrNone
    /\ opts.Language = "go"
    /\ DetectLanguage(Base(filepath)) = ""
    /\ Len(Given) > 0

\* the list Chunk builds for the arguments of this call: chunkCode's loop
\* over the windows, which the two calls compute by the same steps
ChunkList == BuildChunks(mergedWindows, code)

\* the kinds of the parts of a formatted text
PartKinds(formatted) == {formatted[k].kind : k \in 1..Len(formatted)}

\* C18: the chunks ChunkStream has sent are, in order, those of the list
\* Chunk returns for the same arguments: the i-th sent has Index i-1 and the
\* Text, ByteRange, LineRange and ContextualizedText of the list's i-th
\* chunk, with TotalChunks = -1 where Chunk sets the length of the list;
\* the channel is closed only once the whole list has been sent.
C18_StreamMatchesChunk ==
    /\ api = "ChunkStream" =>
           /\ Len(emitted) <= Len(ChunkList)
           /\ \A i \in 1..Len(emitted) :
                  /\ emitted[i].Index = i - 1
                  /\ emitted[i].TotalChunks = -1
                  /\ emitted[i].Text = ChunkList[i].Text
                  /\ emitted[i].ByteRange = ChunkList[i].ByteRange
                  /\ emitted[i].LineRange = ChunkList[i].LineRange
                  /\ emitted[i].ContextualizedText = ChunkList[i].ContextualizedText
           /\ chClosed => Len(emitted) = Len(ChunkList)
    /\ api = "Chunk" =>
           \A i \in 1..Len(Given) :
               /\ Given[i].Index = i - 1
               /\ Given[i].TotalChunks = Len(Given)
               /\ Given[i] = [ChunkList[i] EXCEPT !.Context.ParseError = ExpectedParseError]

\* a closed stream of two chunks or more, the last with an overlap block
\* and a header
C18_Witness ==
    /\ api = "ChunkStream"
    /\ chClosed
    /\ Len(emitted) >= 2
    /\ {"# ", "# ...", "overlap", "# ---", "text"}
           \subseteq PartKinds(emitted[Len(emitted)].ContextualizedText)

\* the context a chunk would be given were the context mode not none
FullContextOf(c) ==
    buildChunkContext([byteRange |-> c.ByteRange], scopeTree, WithDefaults(opts),
                      filepath, lang)

\* C19: with context_mode = none, the scope, entities, siblings and imports
\* of every chunk built or sent are empty, whatever the other options, in
\* Chunk and in ChunkStream.
C19_NoneEmptiesContext ==
    opts.ContextMode = "none" =>
        \A i \in 1..Len(Produced) :
            /\ Produced[i].Context.Scope = <<>>
            /\ Produced[i].Context.Entities = <<>>
            /\ Produced[i].Context.Siblings = <<>>
            /\ Produced[i].Context.Imports = <<>>

\* a chunk of a call with context_mode = none and sibling_detail = names
\* that would have had a scope, entities, siblings and imports otherwise
C19_Witness ==
    /\ opts.ContextMode = "none"
    /\ opts.SiblingDetail = "names"
    /\ \E i \in 1..Len(Produced) :
           /\ FullContextOf(Produced[i]).Scope # <<>>
           /\ FullContextOf(Produced[i]).Entities # <<>>
           /\ FullContextOf(Produced[i]).Siblings # <<>>
           /\ FullContextOf(Produced[i]).Imports # <<>>

\* the number of overlap lines in force; overlap is requested when positive
OverlapLinesInForce == WithDefaults(opts).OverlapLines

\* the places of the parts of an overlap block in a formatted text
BlockPlaces(formatted) ==
    {k \in 1..Len(formatted) : formatted[k].kind \in {"# ...", "overlap", "# ---"}}

\* the last min(n, number of lines) lines of a text
TrailingLines(text, n) ==
    LET lines == SplitLines(text)
        m == IF n < Len(lines) THEN n ELSE Len(lines)
    IN  JoinLines([k \in 1..m |-> lines[Len(lines) - m + k]])

\* the formatted text ends with the start marker, the given block, the end
\* marker and the chunk's own text, and has no other part of a block
EndsWithBlock(c, block) ==
    LET formatted == c.ContextualizedText
        n == Len(formatted)
    IN  /\ n >= 4
        /\ BlockPlaces(formatted) = {n - 3, n - 2, n - 1}
        /\ formatted[n - 3].kind = "# ..."
        /\ formatted[n - 2].kind = "overlap"
        /\ formatted[n - 2].bytes = block
        /\ formatted[n - 1].kind = "# ---"
        /\ formatted[n].kind = "text"
        /\ formatted[n].bytes = c.Text

\* the formatted text has no overlap block and ends with the chunk's text
HasNoBlock(c) ==
    /\ BlockPlaces(c.ContextualizedText) = {}
    /\ c.ContextualizedText[Len(c.ContextualizedText)].kind = "text"
    /\ c.ContextualizedText[Len(c.ContextualizedText)].bytes = c.Text

\* C20 as stated: the first chunk has no overlap block, and every later
\* chunk i, when overlap is requested, has as its block the last
\* min(overlap_lines, number of lines) lines of chunk i-1's raw text, between
\* '# ...' and '# ---' immediately before its own text.
\* Violated: after a chunk whose raw text is empty there is no block at all.
C20_OverlapBlock ==
    \A i \in 1..Len(Produced) :
        IF i = 1 THEN HasNoBlock(Produced[i])
        ELSE OverlapLinesInForce > 0 =>
                 EndsWithBlock(Produced[i],
                               TrailingLines(Produced[i - 1].Text, OverlapLinesInForce))

\* C20, amended: the first chunk has no overlap block; a later chunk i, when
\* overlap is requested and chunk i-1's raw text is not empty, has as its
\* block the last min(overlap_lines, number of lines) lines of chunk i-1's
\* raw text, between '# ...' and '# ---' immediately before its own text;
\* when chunk i-1's raw text is empty, or overlap is not requested, chunk i
\* has no block.
C20_OverlapBlockUnlessEmpty ==
    \A i \in 1..Len(Produced) :
        IF i > 1 /\ OverlapLinesInForce > 0 /\ Produced[i - 1].Text # <<>>
        THEN EndsWithBlock(Produced[i],
                           TrailingLines(Produced[i - 1].Text, OverlapLinesInForce))
        ELSE HasNoBlock(Produced[i])

\* a chunk after a chunk of two lines, with one line of overlap asked for
C20_Witness ==
    /\ opts.OverlapLines = 1
    /\ \E i \in 2..Len(Produced) :
           /\ Len(SplitLines(Produced[i - 1].Text)) = 2
           /\ BlockPlaces(Produced[i].ContextualizedText) # {}

\* the context gives FormatChunkWithContext nothing to put in a header: no
\* path, no scope, no signature to define, no import, no sibling
NoHeaderContent(ctx) ==
    /\ ctx.Filepath = EmptyPath
    /\ Len(ctx.Scope) = 0
    /\ DefinedSignatures(ctx.Entities) = <<>>
    /\ Len(ctx.Imports) = 0
    /\ SiblingNames(ctx.Siblings, "before") = <<>>
    /\ SiblingNames(ctx.Siblings, "after") = <<>>

\* the formatted text is the one string of the raw text: joining one part
\* adds no separator
RawTextOnly(c) == c.ContextualizedText = <<Part("text", <<>>, <<>>, c.Text)>>

\* the formatted text is the overlap block and the raw text, nothing else
BlockAndTextOnly(c, block) ==
    c.ContextualizedText = <<Part("# ...", <<>>, <<>>, <<>>),
                             Part("overlap", <<>>, <<>>, block),
                             Part("# ---", <<>>, <<>>, <<>>),
                             Part("text", <<>>, <<>>, c.Text)>>

\* C21 as stated: when the context yields no header content (no path,
\* scope, Defines, Uses, After or Before line), FormatChunkWithContext
\* returns the raw chunk text unchanged.
\* Violated: a non-empty overlap text is put before the text, between its
\* markers, with or without a header.
C21_NoHeaderRawText ==
    \A i \in 1..Len(Produced) :
        NoHeaderContent(Produced[i].Context) => RawTextOnly(Produced[i])

\* C21, amended: when the context yields no header content,
\* FormatChunkWithContext returns the raw chunk text unchanged if the
\* overlap text is empty, and otherwise the overlap block ('# ...', the
\* overlap text, '# ---') followed by the raw text, with no header line and
\* no blank line.
C21_NoHeaderRawTextUnlessOverlap ==
    \A i \in 1..Len(Produced) :
        NoHeaderContent(Produced[i].Context) =>
            IF i > 1 /\ OverlapLinesInForce > 0 /\ Produced[i - 1].Text # <<>>
            THEN BlockAndTextOnly(Produced[i],
                                  TrailingLines(Produced[i - 1].Text, OverlapLinesInForce))
            ELSE RawTextOnly(Produced[i])

\* a chunk of a call in the full context mode, on an empty path and a file
\* without declarations: no header, the raw text alone
C21_Witness ==
    /\ ContextModeInForce # "none"
    /\ \E i \in 1..Len(Produced) :
           /\ NoHeaderContent(Produced[i].Context)
           /\ Produced[i].Text # <<>>
           /\ RawTextOnly(Produced[i])

\* a chunk without header content that carries an overlap block
C21_WitnessOverlap ==
    \E i \in 2..Len(Produced) :
        /\ NoHeaderContent(Produced[i].Context)
        /\ BlockPlaces(Produced[i].ContextualizedText) # {}

(***************************************************************************)
(* Part II, further properties of the batch calls.                         *)
(***************************************************************************)
\* the workers inside an invocation of OnProgress: between the call, made
\* with the mutex held, and its return
InProgressCallback == {w \in Workers : hasProgress /\ wpc[w] = "unlock"}

\* C23: within one batch call the invocations of on_progress never overlap
\* in time, the k-th invocation gets completed = k (1, 2, 3, ... without gap
\* or repeat) and every invocation gets total = len(files), under every
\* interleaving of the workers.
C23_ProgressSerialised ==
    /\ Cardinality(InProgressCallback) <= 1
    /\ \A w \in InProgressCallback : mu = w
    /\ \A k \in 1..Len(progress) :
           /\ progress[k].completed = k
           /\ progress[k].total = Len(files)

\* one worker is inside the callback, reporting the second completion,
\* after the other worker reported the first
C23_Witness ==
    /\ Len(progress) = 2
    /\ \E w \in InProgressCallback : progress[1].job # job[w]

\* one worker is inside the callback while another waits for the mutex
C23_WitnessContention ==
    /\ InProgressCallback # {}
    /\ \E v \in Workers : wpc[v] = "lock"

\* the files no worker has taken: the indices still in the work channel
Untaken == {work[k] : k \in 1..Len(work)}

\* C24: when the synchronous batch call is cancelled part-way, the slice it
\* returns has len(files) entries, entry i is the zero value when files[i]
\* was never taken and the complete result of files[i] when it was; no two
\* workers hold the same file, so no slot has two writers, and a slot once
\* filled is not written again.
C24_CancelledBatchSlots ==
    mode = "batch" =>
        /\ \A w, v \in Workers : (w # v /\ job[w] # 0) => job[w] # job[v]
        /\ \A w \in Workers : job[w] # 0 => job[w] \notin Untaken
        /\ \A i \in 1..Len(results) :
               /\ results[i] \in {ZeroResult, AloneResult(files[i])}
               /\ (results[i] # ZeroResult) =>
                      /\ i \notin Untaken
                      /\ \A w \in Workers : job[w] = i => wpc[w] \in {"lock", "unlock"}
        /\ (Returned /\ cancelled) =>
               /\ Len(results) = Len(files)
               /\ \A i \in 1..Len(files) :
                      IF i \in Untaken
                      THEN results[i] = ZeroResult
                      ELSE results[i] = AloneResult(files[i])

\* a cancelled batch of two files that returned with one file done and the
\* other never taken
C24_Witness ==
    /\ mode = "batch"
    /\ Returned
    /\ cancelled
    /\ Len(files) = 2
    /\ \E i, j \in 1..2 :
           /\ results[i] = AloneResult(files[i])
           /\ j \in Untaken
           /\ results[j] = ZeroResult

\* C25: in the streaming batch call every file whose completion was
\* reported through on_progress has its result delivered on the channel
\* before the channel closes, and the number of delivered results equals
\* the last completed value reported, also when the context is cancelled
\* while workers run.  Stated for a consumer that never stops receiving.
\* Violated: a worker reports, then its select takes ctx.Done() and returns
\* without sending.
C25_ReportedIsDelivered ==
    (mode = "stream" /\ closed /\ consuming) =>
        /\ \A k \in 1..Len(progress) : DeliveredOf(progress[k].job) # {}
        /\ progress # <<>> => Len(delivered) = progress[Len(progress)].completed

\* C25, amended: in the streaming batch call every delivered result
\* belongs to a file whose completion was reported before, so that the
\* number of delivered results never exceeds the completed count; when the
\* context is not cancelled every reported file has its result delivered
\* before the channel closes and the number of delivered results equals the
\* last completed value reported.  After a cancellation a reported result
\* may be dropped.
C25_DeliveredIsReported ==
    mode = "stream" =>
        /\ hasProgress => \A k \in 1..Len(delivered) : ProgressOf(delivered[k].job) # {}
        /\ Len(delivered) <= completed
        /\ (closed /\ ~cancelled) =>
               /\ \A k \in 1..Len(progress) : DeliveredOf(progress[k].job) # {}
               /\ Len(delivered) = completed
               /\ progress # <<>> => Len(delivered) = progress[Len(progress)].completed

\* a stream closed after a cancellation, with a consumer that kept
\* receiving: two completions reported, one result delivered
C25_Witness ==
    /\ mode = "stream"
    /\ closed
    /\ cancelled
    /\ consuming
    /\ Len(progress) = 2
    /\ Len(delivered) = 1

(***************************************************************************)
(* Part I, further properties of the window operators.                     *)
(***************************************************************************)
\* the concatenation of a list of lists
RECURSIVE Flat(_)
Flat(lists) == IF lists = <<>> THEN <<>> ELSE Head(lists) \o Flat(Tail(lists))

\* the node references of a window list, in order
WindowNodes(windows) == Flat([k \in 1..Len(windows) |-> windows[k].Nodes])

RECURSIVE TotalSize(_)
TotalSize(windows) ==
    IF windows = <<>> THEN 0 ELSE Head(windows).Size + TotalSize(Tail(windows))

\* C26: merge is idempotent: after merge(windows, budget) no two adjacent
\* output windows have a combined NWS size <= budget, so merging the output
\* again returns the same list; the output keeps every input node in its
\* original order and the sum of the window sizes.  Checked on the windows
\* the packer hands over, for the budget of the call and every other budget
\* up to the length of the source.
C26_MergeIdempotent ==
    /\ pc \in {"rebuildText", "done"} =>
           mergedWindows = mergeAdjacentWindows(rawWindows, maxSize)
    /\ \A budget \in 0..MaxLen :
           LET merged == mergeAdjacentWindows(rawWindows, budget)
           IN  /\ \A k \in 1..(Len(merged) - 1) :
                      merged[k].Size + merged[k + 1].Size > budget
               /\ mergeAdjacentWindows(merged, budget) = merged
               /\ WindowNodes(merged) = WindowNodes(rawWindows)
               /\ TotalSize(merged) = TotalSize(rawWindows)

\* a call whose merge joined windows the packer had left apart
C26_Witness ==
    /\ Done
    /\ Len(rawWindows) >= 2
    /\ Len(mergedWindows) < Len(rawWindows)

\* windows of which a merge, under some budget, joins some and leaves two
\* or more
C26_WitnessSomeJoined ==
    \E budget \in 0..MaxLen :
        LET merged == mergeAdjacentWindows(rawWindows, budget)
        IN  Len(merged) >= 2 /\ Len(merged) < Len(rawWindows)

\* C27: for every non-empty window rebuild returns the text
\* source[Start, End), where Start is the least node start and End the
\* greatest node end less the trailing newlines removed; the text does not
\* end with a newline, End >= Start and End - Start is the text length; an
\* empty window yields the empty text and the range [0, 0).
C27_RebuildSlice ==
    /\ rebuildText(EmptyWindow, code).text = <<>>
    /\ rebuildText(EmptyWindow, code).byteRange = [Start |-> 0, End |-> 0]
    /\ Done =>
           \A i \in 1..Len(chunks) :
               LET ns == mergedWindows[i].Nodes
                   starts == {ns[k].s : k \in 1..Len(ns)}
                   ends == {ns[k].e : k \in 1..Len(ns)}
                   c == chunks[i]
               IN  Len(ns) > 0 =>
                       /\ c.ByteRange.Start \in starts
                       /\ \A x \in starts : c.ByteRange.Start <= x
                       /\ \E maxEnd \in ends :
                              /\ \A x \in ends : x <= maxEnd
                              /\ c.ByteRange.End <= maxEnd
                              /\ \A q \in (c.ByteRange.End + 1)..maxEnd : code[q] = Newline
                       /\ c.Text = Slice(code, c.ByteRange.Start, c.ByteRange.End)
                       /\ c.Text # <<>> => c.Text[Len(c.Text)] # Newline
                       /\ c.ByteRange.End >= c.ByteRange.Start
                       /\ c.ByteRange.End - c.ByteRange.Start = Len(c.Text)

\* a chunk of a window of several nodes whose last node ends in a newline,
\* which the text has lost
C27_Witness ==
    /\ Done
    /\ \E i \in 1..Len(chunks) :
           /\ Len(mergedWindows[i].Nodes) >= 2
           /\ chunks[i].Text # <<>>
           /\ \E k \in 1..Len(mergedWindows[i].Nodes) :
                  mergedWindows[i].Nodes[k].e > chunks[i].ByteRange.End

\* the leaves the packer split by lines
LineSplitLeaves ==
    {rawWindows[k].Nodes[1] : k \in {j \in 1..Len(rawWindows) : rawWindows[j].IsPartialNode}}

\* C28: when an oversized leaf is split by lines, every source line of the
\* leaf goes into exactly one sub-window, in order; each sub-window is
\* flagged partial and its recorded inclusive 0-indexed line range is the
\* first and the last source line it accumulated, so the line ranges of
\* consecutive sub-windows of one leaf share no line.
\* Violated: the recorded End counts the newline that ends the last
\* accumulated line, so it is the line after, the first of the next window.
C28_LineSplitLines ==
    \A ref \in LineSplitLeaves :
        LET sub == splitOversizedLeafByLines(ref, code, maxSize)
            acc == AccumulatedLines(ref, code, maxSize)
            lines == SplitLines(Slice(code, ref.s, ref.e))
            first == countNewlines(code, 0, ref.s)
        IN  /\ Len(sub) = Len(acc)
            /\ Flat(acc) = [k \in 1..Len(lines) |-> k]
            /\ \A k \in 1..Len(sub) :
                   /\ sub[k].IsPartialNode
                   /\ sub[k].LineRanges =
                          <<[Start |-> first + acc[k][1] - 1,
                             End |-> first + acc[k][Len(acc[k])] - 1]>>
            /\ \A k \in 1..(Len(sub) - 1) :
                   sub[k].LineRanges[1].End < sub[k + 1].LineRanges[1].Start

\* what the line split does keep: every sub-window is flagged partial,
\* carries one line range that starts at the first line it accumulated, and
\* no line is accumulated twice or out of order
C28_LineSplitStarts ==
    \A ref \in LineSplitLeaves :
        LET sub == splitOversizedLeafByLines(ref, code, maxSize)
            acc == AccumulatedLines(ref, code, maxSize)
            lines == SplitLines(Slice(code, ref.s, ref.e))
            first == countNewlines(code, 0, ref.s)
        IN  /\ Len(sub) = Len(acc)
            /\ IsPrefix(Flat(acc), [k \in 1..Len(lines) |-> k])
            /\ \A k \in 1..Len(sub) :
                   /\ sub[k].IsPartialNode
                   /\ Len(sub[k].LineRanges) = 1
                   /\ sub[k].LineRanges[1].Start = first + acc[k][1] - 1

(***************************************************************************)
(* Part III, further properties: siblings.                                 *)
(***************************************************************************)
SiblingDetailInForce == WithDefaults(opts).SiblingDetail

\* the places in the flat entity list of the entities that can be siblings
SiblingEntities ==
    {k \in 1..Len(scopeTree.AllEntities) :
        scopeTree.AllEntities[k].Type \notin {"import", "export"}}

\* those that end before the chunk / start at or after its end
SideOf(c, position) ==
    {k \in SiblingEntities :
        IF position = "before"
        THEN scopeTree.AllEntities[k].ByteRange.End <= c.ByteRange.Start
        ELSE scopeTree.AllEntities[k].ByteRange.Start >= c.ByteRange.End}

\* entity k lies nearer to a chunk than entity j, both on the given side
Nearer(k, j, position) ==
    IF position = "before"
    THEN scopeTree.AllEntities[k].ByteRange.End > scopeTree.AllEntities[j].ByteRange.End
    ELSE scopeTree.AllEntities[k].ByteRange.Start < scopeTree.AllEntities[j].ByteRange.Start

\* the siblings of chunk c tagged with the position are the nearest
\* entities of that side, up to three, each with its rank by proximity
\* (entities equally near may take their ranks in any order)
NearestTagged(c, position) ==
    LET side == SideOf(c, position)
        tagged == {i \in 1..Len(c.Context.Siblings) :
                      c.Context.Siblings[i].Position = position}
        entityOf(i) == {k \in side :
                          scopeTree.AllEntities[k].Name = c.Context.Siblings[i].Name}
        chosen == UNION {entityOf(i) : i \in tagged}
    IN  /\ Cardinality(tagged) =
               (IF Cardinality(side) < MaxSiblings THEN Cardinality(side) ELSE MaxSiblings)
        /\ Cardinality(chosen) = Cardinality(tagged)
        /\ \A i \in tagged :
               /\ Cardinality(entityOf(i)) = 1
               /\ \A k \in entityOf(i) :
                      /\ \A j \in side \ chosen : ~Nearer(j, k, position)
                      /\ c.Context.Siblings[i].Distance >
                             Cardinality({j \in side : Nearer(j, k, position)})
                      /\ c.Context.Siblings[i].Distance <=
                             Cardinality({j \in side : ~Nearer(k, j, position)})

\* C29: for every chunk the siblings tagged "before" are the up-to-3
\* non-import/non-export entities ending before the chunk that are nearest
\* to it, the siblings tagged "after" the up-to-3 such entities starting at
\* or after its end that are nearest, and a sibling's 1-based distance is
\* its rank by proximity (the nearest on either side has distance 1).
\* Violated: the entities before a chunk are taken and numbered from the
\* start of the file.
C29_NearestSiblings ==
    (ContextModeInForce # "none" /\ SiblingDetailInForce # "none") =>
        \A i \in 1..Len(Produced) :
            /\ NearestTagged(Produced[i], "before")
            /\ NearestTagged(Produced[i], "after")

\* the half of C29 about the entities after a chunk
C29_NearestSiblingsAfter ==
    (ContextModeInForce # "none" /\ SiblingDetailInForce # "none") =>
        \A i \in 1..Len(Produced) : NearestTagged(Produced[i], "after")

(***************************************************************************)
(* Part IV: buildScopeTree on its own (extract.go 349-400), applied to     *)
(* entity lists in any order, not only the pre-order lists extractEntities *)
(* hands to it.                                                            *)
(***************************************************************************)
\* the byte ranges over a source of up to MaxLen bytes, none empty
ByteRanges == {r \in [Start : 0..MaxLen, End : 0..MaxLen] : r.Start < r.End}

\* the k-th entity of a list: its name is its place in the list
ListedEntity(k, entityType, byteRange) ==
    [Type |-> entityType,
     Name |-> <<k>>,
     Signature |-> <<k>>,
     Source |-> "",
     ByteRange |-> byteRange,
     LineRange |-> [Start |-> 0, End |-> 0]]

\* two ranges are disjoint or one contains the other
Nested(a, b) == a.End <= b.Start \/ b.End <= a.Start \/ rangeContains(a, b) \/ rangeContains(b, a)

\* the places of the entities of a list that are neither import nor export
ScopePlaces(es) == {k \in 1..Len(es) : es[k].Type \notin {"import", "export"}}

\* the ranges of the entities that become scope nodes are pairwise distinct
\* and properly nested
ProperlyNested(es) ==
    \A k, j \in ScopePlaces(es) :
        k # j => /\ es[k].ByteRange # es[j].ByteRange
                 /\ Nested(es[k].ByteRange, es[j].ByteRange)

\* the lists of n entities, in every order
EntityLists(n) ==
    { [k \in 1..n |-> ListedEntity(k, ts[k], rs[k])] :
        ts \in [1..n -> {"function", "class", "import", "export"}],
        rs \in [1..n -> ByteRanges] }

InitScope ==
    /\ CacheIdle
    /\ BatchIdle
    /\ code = <<>>
    /\ children = <<>>
    /\ MaxChunkSize = 0
    /\ maxSize = 0
    /\ stack = <<>>
    /\ rawWindows = <<>>
    /\ mergedWindows = <<>>
    /\ chunks = <<>>
    /\ filepath = EmptyPath
    /\ opts = ZeroOptions
    /\ nodeTypes = <<>>
    /\ treeHasError = FALSE
    /\ parseFails = FALSE
    /\ lang = ""
    /\ ret = NoReturn
    /\ emitted = <<>>
    /\ chClosed = FALSE
    /\ prevText = <<>>
    /\ parsed = FALSE
    /\ scopeTree = EmptyScopeTree
    /\ api = "buildScopeTree"
    /\ pc = "buildScopeTree"
    /\ \E n \in 0..MaxNodes : entities \in {es \in EntityLists(n) : ProperlyNested(es)}

\* buildScopeTree(entities)
ScopeBuild ==
    /\ pc = "buildScopeTree"
    /\ scopeTree' = buildScopeTree(entities)
    /\ pc' = "built"
    /\ UNCHANGED <<code, children, MaxChunkSize, maxSize, stack, rawWindows,
                   mergedWindows, chunks>>
    /\ UNCHANGED <<api, filepath, opts, nodeTypes, treeHasError, parseFails, lang,
                   entities, ret, emitted, chClosed, prevText, parsed>>
    /\ UNCHANGED <<batchVars, cacheVars>>

NextScope == ScopeBuild

SpecScope == InitScope /\ [][NextScope]_vars

\* the scope nodes made of the entity at place k of the input list
NodesOf(k) == {n \in ScopeNodes : scopeTree.Nodes[n].Entity = entities[k]}

\* the other scope entities whose range contains that of the entity at k
ContainersOf(k) ==
    {j \in ScopePlaces(entities) \ {k} :
        rangeContains(entities[j].ByteRange, entities[k].ByteRange)}

\* every scope entity has one node, at the depth of the number of its
\* containers, a root when it has none; no import or export has a node
DepthIsNesting ==
    /\ \A n \in ScopeNodes : scopeTree.Nodes[n].Entity.Type \notin {"import", "export"}
    /\ Cardinality(ScopeNodes) = Cardinality(ScopePlaces(entities))
    /\ \A k \in ScopePlaces(entities) :
           /\ Cardinality(NodesOf(k)) = 1
           /\ \A n \in NodesOf(k) :
                  /\ Len(getAncestorChain(scopeTree, n)) = Cardinality(ContainersOf(k))
                  /\ (\E r \in 1..Len(scopeTree.Root) : scopeTree.Root[r] = n)
                         <=> ContainersOf(k) = {}
    /\ \A k \in 1..Len(entities) : k \notin ScopePlaces(entities) => NodesOf(k) = {}

\* among the scope entities that share a start offset, one that contains
\* another comes before it in the list
ContainerFirst(es) ==
    \A k, j \in ScopePlaces(es) :
        (/\ k # j
         /\ es[k].ByteRange.Start = es[j].ByteRange.Start
         /\ rangeContains(es[k].ByteRange, es[j].ByteRange)) => k < j

\* C30 as stated: for every entity list whose non-import/non-export ranges
\* are pairwise distinct and properly nested, buildScopeTree places each
\* such entity at a depth equal to the number of other such entities that
\* contain it, the roots being those contained in none, whatever the order
\* of the list and of entities that share a start offset; imports and
\* exports never become scope nodes.
\* Violated: of two entities with the same start, the inner one listed
\* first stays first after the sort and becomes a root.
C30_DepthIsNesting == pc = "built" => DepthIsNesting

\* C30, amended: the same, for the lists in which, among the entities that
\* share a start offset, a containing entity comes before the ones it
\* contains; the order of the list is otherwise free.
C30_DepthIsNestingContainerFirst ==
    (pc = "built" /\ ContainerFirst(entities)) => DepthIsNesting

\* a list that starts with the innermost of three nested entities, which
\* ends two levels down
C30_Witness ==
    /\ pc = "built"
    /\ ContainerFirst(entities)
    /\ Len(entities) = 3
    /\ ScopePlaces(entities) = {1, 2, 3}
    /\ entities[1].ByteRange.Start > entities[2].ByteRange.Start
    /\ \A n \in NodesOf(1) : Len(getAncestorChain(scopeTree, n)) = 2

\* a list with an import between two nested entities given inner first
C30_WitnessImport ==
    /\ pc = "built"
    /\ ContainerFirst(entities)
    /\ Len(entities) = 3
    /\ entities[2].Type = "import"
    /\ Len(scopeTree.Imports) = 1
    /\ \A n \in NodesOf(1) : Len(getAncestorChain(scopeTree, n)) = 1

(***************************************************************************)
(* Part V: the grammar cache (languages.go 57-106).                        *)
(*                                                                         *)
(* Goroutines call getLanguageGrammar and ClearGrammarCache concurrently.  *)
(* A step is what a goroutine does between two operations on the RWMutex.  *)
(* A grammar is [of, load]: the parser it is for and the number of the     *)
(* GetLanguage call that made it, every such call giving a new object.     *)
(***************************************************************************)
Goroutines == 1..MaxGoroutines

CacheLanguages == LanguageNames \ {""}

\* the switch of getLanguageGrammar, lines 78-93, for the languages of the
\* model: the package whose GetLanguage is called, "" for the default case
loadGrammar(language) ==
    CASE language = "go" -> "golang"
      [] language = "typescript" -> "tsx"
      [] OTHER -> ""

InitCache ==
    /\ ChunkIdle
    /\ BatchIdle
    /\ FileIdle
    /\ api = "none"
    /\ lang = ""
    /\ grammarCache = EmptyCache
    /\ grammarMutex = [readers |-> {}, writer |-> 0]
    /\ gpc = [g \in Goroutines |-> "idle"]
    /\ gcall = [g \in Goroutines |-> NoCall]
    /\ gval = [g \in Goroutines |-> Nil]
    /\ loads = 0
    /\ loadEpoch = <<>>
    /\ clears = 0
    /\ calls = 0
    /\ lookups = <<>>

\* return grammar: the lookup of goroutine g ends
Return(g, grammar) ==
    /\ lookups' = Append(lookups, [lang |-> gcall[g].lang, grammar |-> grammar,
                                   from |-> gcall[g].from, to |-> clears])
    /\ gpc' = [gpc EXCEPT ![g] = "idle"]
    /\ gcall' = [gcall EXCEPT ![g] = NoCall]
    /\ gval' = [gval EXCEPT ![g] = Nil]

\* a goroutine calls getLanguageGrammar(l)
CallLookup(g) ==
    /\ gpc[g] = "idle"
    /\ calls < MaxCalls
    /\ calls' = calls + 1
    /\ \E l \in CacheLanguages : gcall' = [gcall EXCEPT ![g] = [lang |-> l, from |-> clears]]
    /\ gpc' = [gpc EXCEPT ![g] = "RLock"]
    /\ UNCHANGED <<grammarCache, grammarMutex, gval, loads, loadEpoch, clears, lookups>>
    /\ UNCHANGED <<chunkVars, batchVars, fileVars>>

\* grammarMutex.RLock(), line 64
LookupRLock(g) ==
    /\ gpc[g] = "RLock"
    /\ grammarMutex.writer = 0
    /\ grammarMutex' = [grammarMutex EXCEPT !.readers = @ \cup {g}]
    /\ gpc' = [gpc EXCEPT ![g] = "read"]
    /\ UNCHANGED <<grammarCache, gcall, gval, loads, loadEpoch, clears, calls, lookups>>
    /\ UNCHANGED <<chunkVars, batchVars, fileVars>>

\* lines 65-68: the language is cached; RUnlock and return it
LookupHit(g) ==
    /\ gpc[g] = "read"
    /\ gcall[g].lang \in DOMAIN grammarCache
    /\ grammarMutex' = [grammarMutex EXCEPT !.readers = @ \ {g}]
    /\ Return(g, grammarCache[gcall[g].lang])
    /\ UNCHANGED <<grammarCache, loads, loadEpoch, clears, calls>>
    /\ UNCHANGED <<chunkVars, batchVars, fileVars>>

\* lines 65, 69: the language is not cached; RUnlock
LookupMiss(g) ==
    /\ gpc[g] = "read"
    /\ gcall[g].lang \notin DOMAIN grammarCache
    /\ grammarMutex' = [grammarMutex EXCEPT !.readers = @ \ {g}]
    /\ gpc' = [gpc EXCEPT ![g] = "Lock"]
    /\ UNCHANGED <<grammarCache, gcall, gval, loads, loadEpoch, clears, calls, lookups>>
    /\ UNCHANGED <<chunkVars, batchVars, fileVars>>

\* grammarMutex.Lock(), line 71
LookupLock(g) ==
    /\ gpc[g] = "Lock"
    /\ grammarMutex = [readers |-> {}, writer |-> 0]
    /\ grammarMutex' = [grammarMutex EXCEPT !.writer = g]
    /\ gpc' = [gpc EXCEPT ![g] = "check"]
    /\ UNCHANGED <<grammarCache, gcall, gval, loads, loadEpoch, clears, calls, lookups>>
    /\ UNCHANGED <<chunkVars, batchVars, fileVars>>

\* lines 75-77: cached by now; return it, the deferred Unlock runs
LookupRecheckHit(g) ==
    /\ gpc[g] = "check"
    /\ gcall[g].lang \in DOMAIN grammarCache
    /\ grammarMutex' = [grammarMutex EXCEPT !.writer = 0]
    /\ Return(g, grammarCache[gcall[g].lang])
    /\ UNCHANGED <<grammarCache, loads, loadEpoch, clears, calls>>
    /\ UNCHANGED <<chunkVars, batchVars, fileVars>>

\* a lookup that loads without the second look at the cache
LookupLoadUnchecked(g) ==
    /\ gpc[g] = "check"
    /\ loadGrammar(gcall[g].lang) # ""
    /\ loads' = loads + 1
    /\ loadEpoch' = Append(loadEpoch, clears)
    /\ gval' = [gval EXCEPT ![g] = [of |-> loadGrammar(gcall[g].lang), load |-> loads + 1]]
    /\ gpc' = [gpc EXCEPT ![g] = "store"]
    /\ UNCHANGED <<grammarCache, grammarMutex, gcall, clears, calls, lookups>>
    /\ UNCHANGED <<chunkVars, batchVars, fileVars>>

\* lines 79-91: still not cached; grammar = <pkg>.GetLanguage()
LookupLoad(g) ==
    /\ gpc[g] = "check"
    /\ gcall[g].lang \notin DOMAIN grammarCache
    /\ loadGrammar(gcall[g].lang) # ""
    /\ loads' = loads + 1
    /\ loadEpoch' = Append(loadEpoch, clears)
    /\ gval' = [gval EXCEPT ![g] = [of |-> loadGrammar(gcall[g].lang), load |-> loads + 1]]
    /\ gpc' = [gpc EXCEPT ![g] = "store"]
    /\ UNCHANGED <<grammarCache, grammarMutex, gcall, clears, calls, lookups>>
    /\ UNCHANGED <<chunkVars, batchVars, fileVars>>

\* lines 92-93: default: return nil, the deferred Unlock runs
LookupDefault(g) ==
    /\ gpc[g] = "check"
    /\ gcall[g].lang \notin DOMAIN grammarCache
    /\ loadGrammar(gcall[g].lang) = ""
    /\ grammarMutex' = [grammarMutex EXCEPT !.writer = 0]
    /\ Return(g, Nil)
    /\ UNCHANGED <<grammarCache, loads, loadEpoch, clears, calls>>
    /\ UNCHANGED <<chunkVars, batchVars, fileVars>>

\* lines 96-97: grammarCache[lang] = grammar; return; the deferred Unlock runs
LookupStore(g) ==
    /\ gpc[g] = "store"
    /\ grammarCache' = [l \in DOMAIN grammarCache \cup {gcall[g].lang} |->
                            IF l = gcall[g].lang THEN gval[g] ELSE grammarCache[l]]
    /\ grammarMutex' = [grammarMutex EXCEPT !.writer = 0]
    /\ Return(g, gval[g])
    /\ UNCHANGED <<loads, loadEpoch, clears, calls>>
    /\ UNCHANGED <<chunkVars, batchVars, fileVars>>

\* a goroutine calls ClearGrammarCache()
CallClear(g) ==
    /\ gpc[g] = "idle"
    /\ calls < MaxCalls
    /\ calls' = calls + 1
    /\ gpc' = [gpc EXCEPT ![g] = "clearLock"]
    /\ UNCHANGED <<grammarCache, grammarMutex, gcall, gval, loads, loadEpoch, clears, lookups>>
    /\ UNCHANGED <<chunkVars, batchVars, fileVars>>

\* grammarMutex.Lock(), line 103
ClearLock(g) ==
    /\ gpc[g] = "clearLock"
    /\ grammarMutex = [readers |-> {}, writer |-> 0]
    /\ grammarMutex' = [grammarMutex EXCEPT !.writer = g]
    /\ gpc' = [gpc EXCEPT ![g] = "clear"]
    /\ UNCHANGED <<grammarCache, gcall, gval, loads, loadEpoch, clears, calls, lookups>>
    /\ UNCHANGED <<chunkVars, batchVars, fileVars>>

\* line 105: grammarCache = make(...); the deferred Unlock runs
ClearReplace(g) ==
    /\ gpc[g] = "clear"
    /\ grammarCache' = EmptyCache
    /\ clears' = clears + 1
    /\ grammarMutex' = [grammarMutex EXCEPT !.writer = 0]
    /\ gpc' = [gpc EXCEPT ![g] = "idle"]
    /\ UNCHANGED <<gcall, gval, loads, loadEpoch, calls, lookups>>
    /\ UNCHANGED <<chunkVars, batchVars, fileVars>>

NextCache ==
    \/ \E g \in Goroutines : CallLookup(g)
    \/ \E g \in Goroutines : LookupRLock(g)
    \/ \E g \in Goroutines : LookupHit(g)
    \/ \E g \in Goroutines : LookupMiss(g)
    \/ \E g \in Goroutines : LookupLock(g)
    \/ \E g \in Goroutines : LookupRecheckHit(g)
    \/ \E g \in Goroutines : LookupLoad(g)
    \/ \E g \in Goroutines : LookupDefault(g)
    \/ \E g \in Goroutines : LookupStore(g)
    \/ \E g \in Goroutines : CallClear(g)
    \/ \E g \in Goroutines : ClearLock(g)
    \/ \E g \in Goroutines : ClearReplace(g)

SpecCache == InitCache /\ [][NextCache]_vars

\* the places in the log of the finished lookups
Lookups == 1..Len(lookups)

\* no clear took effect from the start of the earlier of two lookups to the
\* return of the later
NoClearBetween(a, b) ==
    /\ lookups[a].from = lookups[a].to
    /\ lookups[b].from = lookups[b].to
    /\ lookups[a].from = lookups[b].from

\* C22: under any interleaving of concurrent getLanguageGrammar and
\* ClearGrammarCache calls, every lookup of a supported language returns that
\* language's non-nil grammar and every lookup of an unsupported language
\* returns nil and caches nothing; a clear only forces the next lookup of a
\* language to reload it (a lookup started after a clear returns a grammar
\* loaded after that clear), and two lookups of a language with no clear in
\* between return the same cached grammar.
C22_GrammarCache ==
    /\ \A k \in Lookups :
           IF lookups[k].lang \in {"go", "typescript"}
           THEN /\ lookups[k].grammar # Nil
                /\ lookups[k].grammar.of = loadGrammar(lookups[k].lang)
                /\ lookups[k].grammar.load \in 1..loads
                /\ loadEpoch[lookups[k].grammar.load] >= lookups[k].from
                /\ loadEpoch[lookups[k].grammar.load] <= lookups[k].to
           ELSE lookups[k].grammar = Nil
    /\ \A l \in DOMAIN grammarCache :
           /\ l \in {"go", "typescript"}
           /\ grammarCache[l] # Nil
           /\ grammarCache[l].of = loadGrammar(l)
    /\ \A a, b \in Lookups :
           (lookups[a].lang = lookups[b].lang /\ NoClearBetween(a, b)) =>
               lookups[a].grammar = lookups[b].grammar

\* two lookups of Go returned the same grammar, a clear followed, and a
\* third lookup returned a newly loaded one
C22_Witness ==
    \E a, b, c \in Lookups :
        /\ a < b /\ b < c
        /\ lookups[a].lang = "go" /\ lookups[b].lang = "go" /\ lookups[c].lang = "go"
        /\ NoClearBetween(a, b)
        /\ lookups[a].grammar = lookups[b].grammar
        /\ lookups[c].from = 1
        /\ lookups[c].grammar.load # lookups[a].grammar.load

\* two goroutines missed the same language: one holds the write lock, the
\* other waits for it
C22_WitnessRace ==
    \E g, h \in Goroutines :
        /\ gpc[g] = "store"
        /\ gpc[h] = "Lock"
        /\ gcall[g].lang = gcall[h].lang

\* a lookup of an unsupported language returned, and a lookup that a clear
\* overtook returned too
C22_WitnessUnsupported ==
    \E a, b \in Lookups :
        /\ lookups[a].lang = "cobol"
        /\ lookups[b].lang = "go"
        /\ lookups[b].from < lookups[b].to

====
